---- MODULE Spec2Model ----
(***************************************************************************)
(* A model of paasta_tools/kubernetes_tools.py: the compilation of a       *)
(* service instance configuration into a Kubernetes manifest, the config   *)
(* hash input, the autoscaling policy and the deploy status.               *)
(*                                                                         *)
(* Python values are modelled as follows.                                  *)
(*   - An optional value (None or x) is the sequence <<>> or <<x>>.        *)
(*   - A call that may raise returns Return(v) or Raise(e).                *)
(*   - config_dict is the record cfg; a key that is not configured is None.*)
(***************************************************************************)
EXTENDS Integers, Sequences, FiniteSets, TLC

VARIABLES
    cfg,                \* self.config_dict and the collaborators' answers for it
    app,                \* the observed app: app.status of a V1Deployment/V1StatefulSet
    desired_instances,  \* the desired_instances argument of the status query
    kube,               \* the orchestrator's state read through KubeClient
    ret,                \* what the last call returned or raised
    last                \* the name of the last call ("none" before any call)

vars == <<cfg, app, desired_instances, kube, ret, last>>

---------------------------------------------------------------------------
(* Python values *)

None == <<>>
Some(x) == <<x>>
IsNone(o) == o = <<>>
Val(o) == o[1]
\* dict.get(key, default) on a key whose configured value is the option o
Get(o, default) == IF IsNone(o) THEN default ELSE Val(o)

Return(v) == [raised |-> FALSE, val |-> v]
Raise(e) == [raised |-> TRUE, exc |-> e]

NoCall == [raised |-> FALSE, val |-> "no call yet"]

\* Tagged Python values, where the code looks at the type (isinstance, type())
\* or at the truth value of a configured value
PyStr(s) == [type |-> "str", s |-> s]
PyInt(n) == [type |-> "int", n |-> n]
PyList(l) == [type |-> "list", items |-> l]
PyDict(d) == [type |-> "dict", d |-> d]
\* bool(x)
Truthy(x) ==
    CASE x.type = "str" -> x.s # ""
      [] x.type = "int" -> x.n # 0
      [] x.type = "list" -> x.items # <<>>
      [] x.type = "dict" -> DOMAIN x.d # {}

\* The empty dict
EmptyDict == <<>>

\* r, and then f(r's value) unless r raised: the order of evaluation of Python
Bind(r, f(_)) == IF r.raised THEN r ELSE f(r.val)

\* str(n) of an int
Digit(d) ==
    CASE d = 0 -> "0" [] d = 1 -> "1" [] d = 2 -> "2" [] d = 3 -> "3" [] d = 4 -> "4"
      [] d = 5 -> "5" [] d = 6 -> "6" [] d = 7 -> "7" [] d = 8 -> "8" [] d = 9 -> "9"
RECURSIVE StrNat(_)
StrNat(n) == IF n < 10 THEN Digit(n) ELSE StrNat(n \div 10) \o Digit(n % 10)
str(n) == IF n < 0 THEN "-" \o StrNat(0 - n) ELSE StrNat(n)

---------------------------------------------------------------------------
(* Bounds *)

MaxReplicas == 3
\* deny-list entries, node_selectors labels, anti_affinity conditions
MaxBlacklist == 2
MaxSelectors == 1
MaxConditions == 2
\* volumes of one kind, configured instances
MaxVolumes == 1
MaxInstances == 2
\* The persistent volumes of a configuration
MaxClaims == 2
\* The labels of node_selectors that carry operator configs
MaxLabels == 2
\* The conditions of anti_affinity
MaxTerms == 3
\* The tokens a name is made of
MaxTokens == 3
\* The characters of a volume name and the length limits of a call
MaxNameLen == 3
MaxLimit == 8

\* The sequences over S of length at most n
SeqsUpTo(S, n) == UNION {[1..m -> S] : m \in 0..n}

---------------------------------------------------------------------------
(* KubernetesDeployStatus *)

Running == 0
Deploying == 1
Waiting == 2
Stopped == 3

\* An observed or desired replica count
Counts == 0..MaxReplicas
OptCounts == {None} \cup {Some(n) : n \in Counts}

AppStatuses ==
    [ready_replicas : OptCounts, updated_replicas : OptCounts, replicas : OptCounts]

\* A mutant: the updated-replica rule compares with <= instead of <
get_kubernetes_app_deploy_status_updated_le(a, desired) ==
    IF IsNone(a.status.ready_replicas)
    THEN IF desired = 0 THEN Stopped ELSE Waiting
    ELSE IF Val(a.status.ready_replicas) # desired
    THEN Waiting
    ELSE IF ~IsNone(a.status.updated_replicas)
            /\ Val(a.status.updated_replicas) <= desired
    THEN Deploying
    ELSE IF a.status.replicas = Some(0) /\ desired = 0
    THEN Stopped
    ELSE Running

\* A mutant: the readiness rule fires only when fewer replicas are ready than desired
get_kubernetes_app_deploy_status_ready_lt(a, desired) ==
    IF IsNone(a.status.ready_replicas)
    THEN IF desired = 0 THEN Stopped ELSE Waiting
    ELSE IF Val(a.status.ready_replicas) < desired
    THEN Waiting
    ELSE IF ~IsNone(a.status.updated_replicas)
            /\ Val(a.status.updated_replicas) < desired
    THEN Deploying
    ELSE IF a.status.replicas = Some(0) /\ desired = 0
    THEN Stopped
    ELSE Running

\* The deploy_status of get_kubernetes_app_deploy_status(app, kube_client,
\* desired_instances); the deploy_message is always "".
get_kubernetes_app_deploy_status(a, desired) ==
    IF IsNone(a.status.ready_replicas)
    THEN IF desired = 0 THEN Stopped ELSE Waiting
    ELSE IF Val(a.status.ready_replicas) # desired
    THEN Waiting
    ELSE IF ~IsNone(a.status.updated_replicas)
            /\ Val(a.status.updated_replicas) < desired
    THEN Deploying
    ELSE IF a.status.replicas = Some(0) /\ desired = 0
    THEN Stopped
    ELSE Running

---------------------------------------------------------------------------
(* Names.  A name (service, instance, secret name, object name) is the     *)
(* sequence of its characters, so that the rewriting of names is computed  *)
(* character by character.                                                 *)

lower_char(ch) ==
    CASE ch = "A" -> "a" [] ch = "B" -> "b" [] ch = "C" -> "c" [] ch = "D" -> "d"
      [] ch = "E" -> "e" [] ch = "F" -> "f" [] ch = "G" -> "g" [] ch = "H" -> "h"
      [] ch = "I" -> "i" [] ch = "J" -> "j" [] ch = "K" -> "k" [] ch = "L" -> "l"
      [] ch = "M" -> "m" [] ch = "N" -> "n" [] ch = "O" -> "o" [] ch = "P" -> "p"
      [] ch = "Q" -> "q" [] ch = "R" -> "r" [] ch = "S" -> "s" [] ch = "T" -> "t"
      [] ch = "U" -> "u" [] ch = "V" -> "v" [] ch = "W" -> "w" [] ch = "X" -> "x"
      [] ch = "Y" -> "y" [] ch = "Z" -> "z" [] OTHER -> ch

\* str.lower()
lower(name) == [i \in DOMAIN name |-> lower_char(name[i])]

\* str.replace("_", "--")
RECURSIVE replace_underscores(_)
replace_underscores(name) ==
    IF name = <<>> THEN <<>>
    ELSE (IF Head(name) = "_" THEN <<"-", "-">> ELSE <<Head(name)>>)
         \o replace_underscores(Tail(name))

startswith_dashes(name) == Len(name) >= 2 /\ name[1] = "-" /\ name[2] = "-"

\* A mutant: a name with a leading "--" gets the prefix "underscore"
sanitise_kubernetes_name_prefixed(service) ==
    LET name == replace_underscores(service)
        fixed == IF startswith_dashes(name)
                 THEN <<"u", "n", "d", "e", "r", "s", "c", "o", "r", "e">> \o name
                 ELSE name
    IN  lower(fixed)

sanitise_kubernetes_name(service) ==
    LET name == replace_underscores(service)
        fixed == IF startswith_dashes(name)
                 THEN <<"u", "n", "d", "e", "r", "s", "c", "o", "r", "e", "-">>
                      \o SubSeq(name, 3, Len(name))
                 ELSE name
    IN  lower(fixed)

get_kubernetes_app_name(service, instance) ==
    sanitise_kubernetes_name(service) \o <<"-">> \o sanitise_kubernetes_name(instance)

get_sanitised_deployment_name(c) == get_kubernetes_app_name(c.service, c.instance)

---------------------------------------------------------------------------
(* The service instance configuration                                      *)
(*                                                                         *)
(* cfg holds the keys of self.config_dict the modelled methods read (None  *)
(* when the key is not configured) and what the base classes and           *)
(* collaborators answer for this instance.                                 *)

PAASTA_ATTRIBUTE_PREFIX == "paasta.yelp.com/"

DefaultConfig ==
    [ service |-> <<"s", "v", "c">>,
      instance |-> <<"m", "_", "1">>,
      cluster |-> "norcal",
      \* config_dict keys
      bounce_method |-> None,
      bounce_margin_factor |-> None,
      aws_ebs_volumes |-> <<>>,
      persistent_volumes |-> <<>>,
      cmd |-> None,
      deploy_whitelist |-> None,
      deploy_blacklist |-> <<>>,
      node_selectors |-> <<>>,
      anti_affinity |-> None,
      autoscaling |-> EmptyDict,
      min_instances |-> None,
      max_instances |-> None,
      env |-> EmptyDict,
      secret_volumes |-> <<>>,
      iam_role_provider |-> "kiam",
      iam_role |-> <<>>,
      volumes |-> <<>>,
      hacheck_sidecar_volumes |-> <<>>,
      in_smartstack |-> FALSE,
      \* answers of the base classes and of the collaborators
      desired_state |-> "start",
      instances |-> 1,
      healthcheck_mode |-> Some("http"),
      system_paasta_config |-> Some([hpa_always_uses_external_for_signalfx |-> FALSE]),
      docker_url |-> Some([image |-> "registry/services-svc", git_sha |-> "abc123"]),
      force_bounce |-> None
    ]

\* InstanceConfig.get_aws_ebs_volumes, get_persistent_volumes, get_deploy_whitelist,
\* get_deploy_blacklist, get_desired_state: reads of the configuration
get_aws_ebs_volumes(c) == c.aws_ebs_volumes
get_persistent_volumes(c) == c.persistent_volumes
get_deploy_whitelist(c) == c.deploy_whitelist
get_deploy_blacklist(c) == c.deploy_blacklist
get_desired_state(c) == c.desired_state

---------------------------------------------------------------------------
(* Exceptions *)

Exc(type, msg) == [type |-> type, msg |-> msg]

\* InvalidKubernetesConfig(exception, service, instance)
InvalidKubernetesConfig(exception, service, instance) ==
    [type |-> "InvalidKubernetesConfig", exception |-> exception,
     service |-> service, instance |-> instance]

---------------------------------------------------------------------------
(* Command, bounce method, instance count, rollout strategy *)

\* A mutant: a cmd that is not a string is passed through
get_cmd_unchecked(c) ==
    LET cmd == c.cmd
    IN  IF ~IsNone(cmd) /\ Truthy(Val(cmd))
        THEN IF Val(cmd).type = "str"
             THEN Return(Some(<<"sh", "-c", Val(cmd).s>>))
             ELSE IF Val(cmd).type = "list"
             THEN Return(Some(Val(cmd).items))
             ELSE Return(Some(<<Val(cmd)>>))
        ELSE Return(None)

\* cmd is None or a tagged value; a falsy cmd of any type gives None
get_cmd(c) ==
    LET cmd == c.cmd
    IN  IF ~IsNone(cmd) /\ Truthy(Val(cmd))
        THEN IF Val(cmd).type = "str"
             THEN Return(Some(<<"sh", "-c", Val(cmd).s>>))
             ELSE IF Val(cmd).type = "list"
             THEN Return(Some(Val(cmd).items))
             ELSE Raise(Exc("ValueError", "cmd should be str or list"))
        ELSE Return(None)

\* A mutant: the EBS check is skipped
get_bounce_method_unchecked(c) ==
    Return(Get(c.bounce_method, "crossover"))

get_bounce_method(c) ==
    LET bounce_method == Get(c.bounce_method, "crossover")
    IN  IF get_aws_ebs_volumes(c) # <<>> /\ ~(bounce_method = "downthenup")
        THEN Raise(Exc("Exception",
               "If service instance defines an EBS volume it must use a downthenup bounce_method"))
        ELSE Return(bounce_method)

\* LongRunningServiceConfig.get_desired_instances: no instance when the
\* desired state is stop, else the instance count the base class resolves
LongRunningServiceConfig_get_desired_instances(c) ==
    IF get_desired_state(c) = "start" THEN c.instances ELSE 0

\* A mutant: the instance count is restricted when persistent volumes are
\* configured, not when EBS volumes are
get_desired_instances_checks_persistent(c) ==
    LET instances == LongRunningServiceConfig_get_desired_instances(c)
    IN  IF get_persistent_volumes(c) # <<>> /\ instances \notin {1, 0}
        THEN Raise(Exc("Exception",
               "Number of instances must be 1 or 0 if an EBS volume is defined."))
        ELSE Return(instances)

get_desired_instances(c) ==
    LET instances == LongRunningServiceConfig_get_desired_instances(c)
    IN  IF get_aws_ebs_volumes(c) # <<>> /\ instances \notin {1, 0}
        THEN Raise(Exc("Exception",
               "Number of instances must be 1 or 0 if an EBS volume is defined."))
        ELSE Return(instances)

\* bounce_margin_factor is configured in hundredths: 90 is the float 0.9
get_bounce_margin_factor(c) == Get(c.bounce_margin_factor, 100)

\* The hundredths m for which the float (1 - m / 100) * 100 is just below the
\* integer 100 - m, so that int() truncates it to 100 - m - 1
FloatBelow ==
    {34, 55, 56, 67, 68, 78, 79, 80, 81, 89, 90, 91, 92, 93}

\* int((1 - margin) * 100) in IEEE double arithmetic, for margin = m / 100
int_one_minus_margin_times_100(m) ==
    IF m \in FloatBelow THEN 100 - m - 1 ELSE 100 - m

\* A mutant: brutal is mapped to Recreate
KUBE_DEPLOY_STATEGY_MAP_brutal_recreate ==
    [crossover |-> "RollingUpdate", downthenup |-> "Recreate", brutal |-> "Recreate"]

KUBE_DEPLOY_STATEGY_MAP ==
    [crossover |-> "RollingUpdate", downthenup |-> "Recreate", brutal |-> "RollingUpdate"]

\* V1DeploymentStrategy
get_deployment_strategy_config(c) ==
    Bind(get_bounce_method(c), LAMBDA bounce_method :
      IF bounce_method \notin DOMAIN KUBE_DEPLOY_STATEGY_MAP
      THEN Raise(Exc("KeyError", bounce_method))
      ELSE LET strategy_type == KUBE_DEPLOY_STATEGY_MAP[bounce_method]
           IN  IF strategy_type = "RollingUpdate"
               THEN LET max_unavailable ==
                          IF bounce_method = "crossover"
                          THEN str(int_one_minus_margin_times_100(get_bounce_margin_factor(c)))
                               \o "%"
                          ELSE IF bounce_method = "brutal"
                          THEN "100%"
                          ELSE "unknown"
                    IN  IF max_unavailable = "unknown"
                        THEN Raise(Exc("Exception", "Unknown bounce method for RollingUpdate."))
                        ELSE Return([type |-> strategy_type,
                                     rolling_update |->
                                       Some([max_surge |-> "100%",
                                             max_unavailable |-> max_unavailable])])
               ELSE Return([type |-> strategy_type, rolling_update |-> None]))

---------------------------------------------------------------------------
(* Volume names *)

\* str.rstrip("/")
RECURSIVE rstrip_slash(_)
rstrip_slash(name) ==
    IF name # <<>> /\ name[Len(name)] = "/"
    THEN rstrip_slash(SubSeq(name, 1, Len(name) - 1))
    ELSE name

\* str.replace("/", "slash-").replace(".", "dot-")
RECURSIVE replace_slash_dot(_)
replace_slash_dot(name) ==
    IF name = <<>> THEN <<>>
    ELSE (IF Head(name) = "/" THEN <<"s", "l", "a", "s", "h", "-">>
          ELSE IF Head(name) = "." THEN <<"d", "o", "t", "-">>
          ELSE <<Head(name)>>)
         \o replace_slash_dot(Tail(name))

\* hashlib.md5(name).hexdigest()[:4].  MD5 itself is not computed: four hex
\* characters that are a function of the name stand for it.
HexDigits ==
    <<"0", "1", "2", "3", "4", "5", "6", "7", "8", "9", "a", "b", "c", "d", "e", "f">>
md5_hexdigest_4(name) ==
    LET n == Len(name)
        k == Cardinality({i \in DOMAIN name : name[i] = "-"})
    IN  <<HexDigits[(n % 16) + 1], HexDigits[((n \div 16) % 16) + 1],
          HexDigits[(k % 16) + 1], HexDigits[((n + k) % 16) + 1]>>

\* The slice s[0 : stop] of Python: a negative stop counts from the end
slice_to(s, stop) ==
    IF stop >= 0
    THEN SubSeq(s, 1, IF stop < Len(s) THEN stop ELSE Len(s))
    ELSE SubSeq(s, 1, IF Len(s) + stop > 0 THEN Len(s) + stop ELSE 0)

\* A mutant: the two dashes are not counted in the length of the suffix
get_sanitised_volume_name_short_suffix(volume_name, length_limit) ==
    LET sanitised == replace_slash_dot(rstrip_slash(volume_name))
        sanitised_name == sanitise_kubernetes_name(sanitised)
    IN  IF length_limit # 0 /\ Len(sanitised_name) > length_limit
        THEN slice_to(sanitised_name, length_limit - 4) \o <<"-", "-">>
             \o md5_hexdigest_4(sanitised_name)
        ELSE sanitised_name

\* length_limit = 0 is no limit
get_sanitised_volume_name(volume_name, length_limit) ==
    LET sanitised == replace_slash_dot(rstrip_slash(volume_name))
        sanitised_name == sanitise_kubernetes_name(sanitised)
    IN  IF length_limit # 0 /\ Len(sanitised_name) > length_limit
        THEN slice_to(sanitised_name, length_limit - 6) \o <<"-", "-">>
             \o md5_hexdigest_4(sanitised_name)
        ELSE sanitised_name

PersistentVolumeNameLimit == 253

get_persistent_volume_name(docker_volume) ==
    get_sanitised_volume_name(<<"p", "v", "-", "-">> \o docker_volume.container_path,
                              PersistentVolumeNameLimit)

\* A mutant: the claim templates come out in reverse order
get_volume_claim_templates_reversed(c) ==
    LET volumes == get_persistent_volumes(c)
    IN  [i \in DOMAIN volumes |->
           [metadata |-> [name |-> get_persistent_volume_name(
                                     volumes[Len(volumes) + 1 - i])],
            spec |-> [access_modes |-> <<"ReadWriteOnce">>,
                      storage |-> volumes[Len(volumes) + 1 - i].size]]]

\* V1PersistentVolumeClaim of every persistent volume, in order
get_volume_claim_templates(c) ==
    [i \in DOMAIN get_persistent_volumes(c) |->
       [metadata |-> [name |-> get_persistent_volume_name(get_persistent_volumes(c)[i])],
        spec |-> [access_modes |-> <<"ReadWriteOnce">>,
                  storage |-> get_persistent_volumes(c)[i].size]]]

---------------------------------------------------------------------------
(* Pod volumes and volume mounts *)

DockerVolumeNameLimit == 63
SecretVolumeNameLimit == 253

get_docker_volume_name(docker_volume) ==
    get_sanitised_volume_name(<<"h", "o", "s", "t", "-", "-">> \o docker_volume.hostPath,
                              DockerVolumeNameLimit)

\* aws_ebs_volume.get("partition", "") is the partition when the key is there
get_aws_ebs_volume_name(aws_ebs_volume) ==
    get_sanitised_volume_name(
        <<"a", "w", "s", "-", "e", "b", "s", "-", "-">> \o aws_ebs_volume.volume_id
        \o (IF "partition" \in DOMAIN aws_ebs_volume THEN aws_ebs_volume.partition ELSE <<>>),
        0)

get_secret_volume_name(secret_volume) ==
    get_sanitised_volume_name(
        <<"s", "e", "c", "r", "e", "t", "-", "-">> \o secret_volume.secret_name,
        SecretVolumeNameLimit)

HACHECK_POD_NAME == "hacheck"

\* d.get("mode", "RO") == "RO"
read_only_mode(d) == IF "mode" \in DOMAIN d THEN d.mode = "RO" ELSE TRUE

\* The items of {names[i]: volumes[i] for i}, in the order of the dict: a
\* name stays where it was first met and keeps the last volume that has it
unique_by_name(volumes, names) ==
    LET firsts == SelectSeq([i \in DOMAIN volumes |-> i],
                            LAMBDA i : \A j \in 1..(i - 1) : names[j] # names[i])
        last_of(i) == CHOOSE j \in DOMAIN volumes :
                         /\ names[j] = names[i]
                         /\ \A h \in (j + 1)..Len(volumes) : names[h] # names[i]
    IN  [n \in DOMAIN firsts |->
           [name |-> names[firsts[n]], volume |-> volumes[last_of(firsts[n])]]]

\* A mutant: the secret volumes are left out of the pod
get_pod_volumes_without_secrets(docker_volumes, aws_ebs_volumes, secret_volumes) ==
    LET unique_docker_volumes ==
            unique_by_name(docker_volumes,
                           [i \in DOMAIN docker_volumes |->
                              get_docker_volume_name(docker_volumes[i])])
        unique_aws_ebs_volumes ==
            unique_by_name(aws_ebs_volumes,
                           [i \in DOMAIN aws_ebs_volumes |->
                              get_aws_ebs_volume_name(aws_ebs_volumes[i])])
    IN  [i \in DOMAIN unique_docker_volumes |->
           [name |-> unique_docker_volumes[i].name,
            host_path |-> unique_docker_volumes[i].volume.hostPath]]
        \o [i \in DOMAIN unique_aws_ebs_volumes |->
              [name |-> unique_aws_ebs_volumes[i].name,
               aws_elastic_block_store |-> unique_aws_ebs_volumes[i].volume.volume_id]]

\* V1Volume of the host-path, EBS and secret volumes (the name and the source)
get_pod_volumes(docker_volumes, aws_ebs_volumes, secret_volumes) ==
    LET unique_docker_volumes ==
            unique_by_name(docker_volumes,
                           [i \in DOMAIN docker_volumes |->
                              get_docker_volume_name(docker_volumes[i])])
        unique_aws_ebs_volumes ==
            unique_by_name(aws_ebs_volumes,
                           [i \in DOMAIN aws_ebs_volumes |->
                              get_aws_ebs_volume_name(aws_ebs_volumes[i])])
    IN  [i \in DOMAIN unique_docker_volumes |->
           [name |-> unique_docker_volumes[i].name,
            host_path |-> unique_docker_volumes[i].volume.hostPath]]
        \o [i \in DOMAIN unique_aws_ebs_volumes |->
              [name |-> unique_aws_ebs_volumes[i].name,
               aws_elastic_block_store |-> unique_aws_ebs_volumes[i].volume.volume_id]]
        \o [i \in DOMAIN secret_volumes |->
              [name |-> get_secret_volume_name(secret_volumes[i]),
               secret |-> secret_volumes[i].secret_name]]

\* V1VolumeMount of every volume, none left out
get_volume_mounts(docker_volumes, aws_ebs_volumes, persistent_volumes, secret_volumes) ==
    [i \in DOMAIN docker_volumes |->
       [mount_path |-> docker_volumes[i].containerPath,
        name |-> get_docker_volume_name(docker_volumes[i]),
        read_only |-> read_only_mode(docker_volumes[i])]]
    \o [i \in DOMAIN aws_ebs_volumes |->
          [mount_path |-> aws_ebs_volumes[i].container_path,
           name |-> get_aws_ebs_volume_name(aws_ebs_volumes[i]),
           read_only |-> read_only_mode(aws_ebs_volumes[i])]]
    \o [i \in DOMAIN persistent_volumes |->
          [mount_path |-> persistent_volumes[i].container_path,
           name |-> get_persistent_volume_name(persistent_volumes[i]),
           read_only |-> read_only_mode(persistent_volumes[i])]]
    \o [i \in DOMAIN secret_volumes |->
          [mount_path |-> secret_volumes[i].container_path,
           name |-> get_secret_volume_name(secret_volumes[i]),
           read_only |-> TRUE]]

\* The volumes of the service and of the system, the volumes of the hacheck
\* sidecar and the secret volumes of a config
get_volumes(c) == c.volumes
get_hacheck_sidecar_volumes(c) == c.hacheck_sidecar_volumes
get_secret_volumes(c) == c.secret_volumes
is_in_smartstack(c) == c.in_smartstack

\* The hacheck sidecar (its name and volume mounts), for a service in smartstack
get_sidecar_containers(c) ==
    IF is_in_smartstack(c)
    THEN << [name |-> HACHECK_POD_NAME,
             volume_mounts |-> get_volume_mounts(get_hacheck_sidecar_volumes(c),
                                                 <<>>, <<>>, <<>>)] >>
    ELSE <<>>

---------------------------------------------------------------------------
(* Containers and the pod template *)

InvalidHealthcheckMode == "InvalidHealthcheckMode"

\* str.upper() of a healthcheck mode
upper(mode) == CASE mode = "http" -> "HTTP" [] mode = "https" -> "HTTPS" [] OTHER -> mode

NoProbeAction == [http_get |-> None, tcp_socket |-> None, _exec |-> None]

\* A mutant: an unknown mode gives the probe without action
get_liveness_probe_lenient(c) ==
    LET mode == c.healthcheck_mode
    IN  IF IsNone(mode) THEN Return(None)
        ELSE IF Val(mode) = "http" \/ Val(mode) = "https"
        THEN Return(Some([NoProbeAction EXCEPT !.http_get = Some([scheme |-> upper(Val(mode))])]))
        ELSE IF Val(mode) = "tcp"
        THEN Return(Some([NoProbeAction EXCEPT !.tcp_socket = Some([port |-> "container_port"])]))
        ELSE IF Val(mode) = "cmd"
        THEN Return(Some([NoProbeAction EXCEPT
                            !._exec = Some([command |-> <<"/bin/sh", "-c", "healthcheck_cmd">>])]))
        ELSE Return(Some(NoProbeAction))

\* V1Probe or None; healthcheck_mode is what get_healthcheck_mode answers
get_liveness_probe(c) ==
    LET mode == c.healthcheck_mode
    IN  IF IsNone(mode) THEN Return(None)
        ELSE IF Val(mode) = "http" \/ Val(mode) = "https"
        THEN Return(Some([NoProbeAction EXCEPT !.http_get = Some([scheme |-> upper(Val(mode))])]))
        ELSE IF Val(mode) = "tcp"
        THEN Return(Some([NoProbeAction EXCEPT !.tcp_socket = Some([port |-> "container_port"])]))
        ELSE IF Val(mode) = "cmd"
        THEN Return(Some([NoProbeAction EXCEPT
                            !._exec = Some([command |-> <<"/bin/sh", "-c", "healthcheck_cmd">>])]))
        ELSE Raise(Exc(InvalidHealthcheckMode, Val(mode)))

\* deep_merge_dictionaries(overrides = config_dict["autoscaling"], defaults);
\* setpoint is in hundredths
default_params ==
    [metrics_provider |-> "mesos_cpu", decision_policy |-> "proportional", setpoint |-> 80]

get_autoscaling_params(c) ==
    [k \in DOMAIN default_params \cup DOMAIN c.autoscaling |->
       IF k \in DOMAIN c.autoscaling THEN c.autoscaling[k] ELSE default_params[k]]

\* The primary container (the fields modelled: name, image, command, probe)
get_kubernetes_containers(c) ==
    Bind(get_cmd(c), LAMBDA command :
      Bind(get_liveness_probe(c), LAMBDA liveness_probe :
        Return(<< [name |-> sanitise_kubernetes_name(c.instance),
                   image |-> Val(c.docker_url),
                   command |-> command,
                   liveness_probe |-> liveness_probe,
                   volume_mounts |-> get_volume_mounts(get_volumes(c),
                                                       get_aws_ebs_volumes(c),
                                                       get_persistent_volumes(c),
                                                       get_secret_volumes(c))] >>
               \o get_sidecar_containers(c))))

---------------------------------------------------------------------------
(* Node affinity and pod anti-affinity *)

to_node_label(label) ==
    IF label \in {"instance_type", "instance-type"}
    THEN "node.kubernetes.io/instance-type"
    ELSE IF label \in {"datacenter", "ecosystem", "habitat", "hostname", "region",
                       "superregion"}
    THEN "yelp.com/" \o label
    ELSE label

\* A mutant: a deny-list entry that comes again later in the list is pruned
RECURSIVE blacklist_requirements_pruned(_)
blacklist_requirements_pruned(blacklist) ==
    IF blacklist = <<>> THEN <<>>
    ELSE (IF \E i \in DOMAIN Tail(blacklist) : Tail(blacklist)[i] = Head(blacklist)
          THEN <<>>
          ELSE << <<to_node_label(Head(blacklist)[1]), "NotIn", <<Head(blacklist)[2]>> >> >>)
         \o blacklist_requirements_pruned(Tail(blacklist))

\* A requirement is the tuple <<key, operator, values>>
RECURSIVE blacklist_requirements(_)
blacklist_requirements(blacklist) ==
    IF blacklist = <<>> THEN <<>>
    ELSE << <<to_node_label(Head(blacklist)[1]), "NotIn", <<Head(blacklist)[2]>> >> >>
         \o blacklist_requirements(Tail(blacklist))

_whitelist_blacklist_to_requirements(c) ==
    LET whitelist == get_deploy_whitelist(c)
        blacklist == get_deploy_blacklist(c)
    IN  (IF ~IsNone(whitelist)
         THEN << <<to_node_label(Val(whitelist)[1]), "In", Val(whitelist)[2]>> >>
         ELSE <<>>)
        \o blacklist_requirements(blacklist)

\* A mutant: an operator that is not one of the six is skipped
RECURSIVE configs_requirements_skipping(_, _)
configs_requirements_skipping(label, configs) ==
    IF configs = <<>> THEN Return(<<>>)
    ELSE LET config == Head(configs)
             values ==
                 IF config.operator \in {"In", "NotIn"} THEN config.values
                 ELSE IF config.operator \in {"Exists", "DoesNotExist"} THEN <<>>
                 ELSE <<str(config.value)>>
         IN  Bind(configs_requirements_skipping(label, Tail(configs)), LAMBDA rest :
               IF config.operator \in {"In", "NotIn", "Exists", "DoesNotExist", "Gt", "Lt"}
               THEN Return(<< <<label, config.operator, values>> >> \o rest)
               ELSE Return(rest))

\* The requirements of one label's operator configs, in order; raises at the
\* first operator that is not one of the six
RECURSIVE configs_requirements(_, _)
configs_requirements(label, configs) ==
    IF configs = <<>> THEN Return(<<>>)
    ELSE LET config == Head(configs)
             values ==
                 IF config.operator \in {"In", "NotIn"} THEN Return(config.values)
                 ELSE IF config.operator \in {"Exists", "DoesNotExist"} THEN Return(<<>>)
                 ELSE IF config.operator \in {"Gt", "Lt"} THEN Return(<<str(config.value)>>)
                 ELSE Raise(Exc("ValueError", "Unknown k8s node affinity operator"))
         IN  Bind(values, LAMBDA vs :
               Bind(configs_requirements(label, Tail(configs)), LAMBDA rest :
                 Return(<< <<label, config.operator, vs>> >> \o rest)))

\* node_selectors is the sequence of the (label, configs) items of the dict;
\* configs is a PyStr (a plain selector), or a PyList of strings or of
\* operator configs
RECURSIVE selectors_requirements(_)
selectors_requirements(raw_selectors) ==
    IF raw_selectors = <<>> THEN Return(<<>>)
    ELSE LET label == Head(raw_selectors)[1]
             configs == Head(raw_selectors)[2]
         IN  IF configs.type # "list" \/ Len(configs.items) = 0
             THEN selectors_requirements(Tail(raw_selectors))
             ELSE LET cs == IF configs.items[1].type = "str"
                            THEN << [operator |-> "In",
                                     values |-> [i \in DOMAIN configs.items |->
                                                   configs.items[i].s]] >>
                            ELSE [i \in DOMAIN configs.items |-> configs.items[i].d]
                  IN  Bind(configs_requirements(to_node_label(label), cs), LAMBDA reqs :
                        Bind(selectors_requirements(Tail(raw_selectors)), LAMBDA rest :
                          Return(reqs \o rest)))

_raw_selectors_to_requirements(c) == selectors_requirements(c.node_selectors)

\* V1NodeAffinity or None
get_node_affinity(c) ==
    Bind(_raw_selectors_to_requirements(c), LAMBDA raw :
      LET requirements == _whitelist_blacklist_to_requirements(c) \o raw
      IN  IF Len(requirements) = 0
          THEN Return(None)
          ELSE Return(Some(
                 [required_during_scheduling_ignored_during_execution |->
                   [node_selector_terms |->
                     << [match_expressions |->
                          [i \in DOMAIN requirements |->
                            [key |-> requirements[i][1],
                             operator |-> requirements[i][2],
                             values |-> requirements[i][3]]]] >>]])))

\* A mutant: a selector without labels is returned as a selector
_kube_affinity_condition_to_label_selector_always(condition) ==
    LET keys == {k \in {"service", "instance"} : k \in DOMAIN condition}
        labels == [l \in {PAASTA_ATTRIBUTE_PREFIX \o k : k \in keys} |->
                     IF l = PAASTA_ATTRIBUTE_PREFIX \o "service"
                     THEN condition["service"] ELSE condition["instance"]]
    IN  Some([match_labels |-> labels])

\* V1LabelSelector or None; condition is a dict
_kube_affinity_condition_to_label_selector(condition) ==
    LET keys == {k \in {"service", "instance"} : k \in DOMAIN condition}
        labels == [l \in {PAASTA_ATTRIBUTE_PREFIX \o k : k \in keys} |->
                     IF l = PAASTA_ATTRIBUTE_PREFIX \o "service"
                     THEN condition["service"] ELSE condition["instance"]]
    IN  IF DOMAIN labels # {} THEN Some([match_labels |-> labels]) ELSE None

RECURSIVE affinity_terms(_)
affinity_terms(conditions) ==
    IF conditions = <<>> THEN <<>>
    ELSE LET label_selector == _kube_affinity_condition_to_label_selector(Head(conditions))
         IN  (IF ~IsNone(label_selector)
              THEN << [topology_key |-> "kubernetes.io/hostname",
                       label_selector |-> Val(label_selector)] >>
              ELSE <<>>)
             \o affinity_terms(Tail(conditions))

\* V1PodAntiAffinity or None; anti_affinity is a PyDict (one condition) or a
\* PyList of dicts
get_pod_anti_affinity(c) ==
    LET conditions == Get(c.anti_affinity, PyList(<<>>))
    IN  IF ~Truthy(conditions)
        THEN None
        ELSE LET conds == IF conditions.type # "list" THEN <<conditions.d>>
                          ELSE conditions.items
             IN  Some([required_during_scheduling_ignored_during_execution |->
                         affinity_terms(conds)])

\* The "affinity" entry of pod_spec_kwargs: None when the key is not set, else
\* the V1Affinity
pod_affinity(c) ==
    Bind(get_node_affinity(c), LAMBDA node_affinity :
      LET first == IF ~IsNone(node_affinity)
                   THEN Some([node_affinity |-> node_affinity, pod_anti_affinity |-> None])
                   ELSE None
          pod_anti_affinity == get_pod_anti_affinity(c)
      IN  IF ~IsNone(pod_anti_affinity)
          THEN Return(Some([Get(first, [node_affinity |-> None, pod_anti_affinity |-> None])
                              EXCEPT !.pod_anti_affinity = pod_anti_affinity]))
          ELSE Return(first))

\* The labels of the app and of its pods
default_labels(c, git_sha) ==
    ("yelp.com/paasta_service" :> c.service)
    @@ ("yelp.com/paasta_instance" :> c.instance)
    @@ ("yelp.com/paasta_git_sha" :> git_sha)
    @@ ("paasta.yelp.com/service" :> c.service)
    @@ ("paasta.yelp.com/instance" :> c.instance)
    @@ ("paasta.yelp.com/git_sha" :> git_sha)

\* V1PodTemplateSpec (the fields modelled: the autoscaling annotation, the
\* containers, the restart policy, the volumes and the affinity; affinity None
\* is a pod spec without the affinity key)
get_pod_template_spec(c, git_sha) ==
    LET metrics_provider == get_autoscaling_params(c)["metrics_provider"]
        annotations == IF metrics_provider \in {"http", "uwsgi"}
                       THEN [autoscaling |-> metrics_provider]
                       ELSE EmptyDict
    IN  Bind(get_kubernetes_containers(c), LAMBDA containers :
          Bind(pod_affinity(c), LAMBDA affinity :
            Return([metadata |-> [labels |-> default_labels(c, git_sha),
                                  annotations |-> annotations],
                    spec |-> [containers |-> containers,
                              restart_policy |-> "Always",
                              volumes |-> get_pod_volumes(
                                              get_volumes(c) \o get_hacheck_sidecar_volumes(c),
                                              get_aws_ebs_volumes(c),
                                              get_secret_volumes(c)),
                              affinity |-> affinity]])))

---------------------------------------------------------------------------
(* The autoscaling policy *)

load_system_paasta_config(c) ==
    IF IsNone(c.system_paasta_config)
    THEN Raise(Exc("PaastaNotConfiguredError", "no system configuration"))
    ELSE Return(Val(c.system_paasta_config))

get_min_instances(c) == Get(c.min_instances, 1)
\* None or the configured max_instances, as an option
get_max_instances(c) == c.max_instances
\* LongRunningServiceConfig.is_autoscaling_enabled
is_autoscaling_enabled(c) == ~IsNone(get_max_instances(c))

\* A mutant: the scale-down step follows the replica bound
get_autoscaling_scaling_policy_by_bound(max_replicas) ==
    [scaleDown |->
       [stabilizationWindowSeconds |-> 300,
        selectPolicy |-> "Max",
        policies |-> << [type |-> "Pods", value |-> max_replicas, periodSeconds |-> 60] >>]]

get_autoscaling_scaling_policy(max_replicas) ==
    [scaleDown |->
       [stabilizationWindowSeconds |-> 300,
        selectPolicy |-> "Max",
        policies |-> << [type |-> "Percent", value |-> 30, periodSeconds |-> 60] >>]]

\* The characters of a metrics provider name
chars_of(provider) ==
    CASE provider = "http" -> <<"h", "t", "t", "p">>
      [] provider = "uwsgi" -> <<"u", "w", "s", "g", "i">>

\* A mutant: the metric name is not namespaced by the deployment
namespace_external_metric_name_bare(c, metric_name) == chars_of(metric_name)

namespace_external_metric_name(c, metric_name) ==
    get_sanitised_deployment_name(c) \o <<"-">> \o chars_of(metric_name)

\* The hundredths s for which the float (s / 100) * 100 is just below s
FloatBelowSetpoint == {29, 57, 58}

\* int(target * 100) for target = s / 100
int_target_times_100(s) == IF s \in FloatBelowSetpoint THEN s - 1 ELSE s

\* The metrics and annotations of a known provider: Return([metrics, annotations])
\* or what load_system_paasta_config raises.  Annotations are the (key, value)
\* items of the dict.
provider_metrics(c, cluster, params) ==
    LET metrics_provider == params["metrics_provider"]
        target == params["setpoint"]
    IN  IF metrics_provider = "mesos_cpu"
        THEN Return([metrics |->
                       << [type |-> "Resource",
                           resource |-> [name |-> "cpu",
                                         target |-> [type |-> "Utilization",
                                                     average_utilization |->
                                                       int_target_times_100(target)]]] >>,
                     annotations |-> <<>>])
        ELSE LET external(sys) ==
                   LET hpa_metric_name == namespace_external_metric_name(c, metrics_provider)
                       signalflow ==
                         [setpoint |-> target,
                          offset |-> IF "offset" \in DOMAIN params THEN params["offset"] ELSE 0,
                          moving_average_window_seconds |->
                            IF "moving_average_window_seconds" \in DOMAIN params
                            THEN params["moving_average_window_seconds"] ELSE 1800,
                          paasta_service |-> c.service,
                          paasta_instance |-> c.instance,
                          paasta_cluster |-> c.cluster,
                          signalfx_metric_name |-> metrics_provider]
                   IN  Return([metrics |->
                                 << [type |-> "External",
                                     external |-> [metric |-> [name |-> hpa_metric_name],
                                                   target |-> [type |-> "Value",
                                                               value |-> 1]]] >>,
                               annotations |->
                                 << <<"signalfx.com.custom.metrics", "">>,
                                    << <<"signalfx.com.external.metric/", hpa_metric_name>>,
                                       signalflow>> >>])
                 pods ==
                   Return([metrics |->
                             << [type |-> "Pods",
                                 pods |-> [metric |->
                                             [name |-> metrics_provider,
                                              selector |->
                                                [match_labels |->
                                                   [paasta_cluster |-> cluster]]],
                                           target |-> [type |-> "AverageValue",
                                                       average_value |-> target]]] >>,
                           annotations |-> << <<"signalfx.com.custom.metrics", "">> >>])
             IN  IF ("forecast_policy" \in DOMAIN params
                       /\ params["forecast_policy"] = "moving_average")
                    \/ "offset" \in DOMAIN params
                 THEN Bind(load_system_paasta_config(c), external)
                 ELSE Bind(load_system_paasta_config(c), LAMBDA sys :
                        IF sys.hpa_always_uses_external_for_signalfx
                        THEN external(sys)
                        ELSE pods)

\* A mutant: a zero min_instances is let through
get_autoscaling_metric_spec_zero_min(c, name, cluster) ==
    IF get_desired_state(c) = "stop" THEN Return(None)
    ELSE IF ~is_autoscaling_enabled(c) THEN Return(None)
    ELSE LET autoscaling_params == get_autoscaling_params(c)
             min_replicas == get_min_instances(c)
             max_replicas == Val(get_max_instances(c))
         IN  IF autoscaling_params["decision_policy"] = "bespoke" THEN Return(None)
             ELSE IF max_replicas = 0 THEN Return(None)
             ELSE IF autoscaling_params["metrics_provider"] \notin {"mesos_cpu", "http", "uwsgi"}
             THEN Return(None)
             ELSE Bind(provider_metrics(c, cluster, autoscaling_params), LAMBDA m :
                    Return(Some(
                      [kind |-> "HorizontalPodAutoscaler",
                       metadata |-> [name |-> name, namespace |-> "paasta",
                                     annotations |-> m.annotations],
                       spec |-> [maxReplicas |-> max_replicas,
                                 minReplicas |-> min_replicas,
                                 metrics |-> m.metrics,
                                 scaleTargetRef |-> [apiVersion |-> "apps/v1",
                                                     kind |-> "Deployment",
                                                     name |-> name],
                                 behavior |-> get_autoscaling_scaling_policy(max_replicas)]])))

\* A mutant: an unknown metrics provider raises
get_autoscaling_metric_spec_strict_provider(c, name, cluster) ==
    IF get_desired_state(c) = "stop" THEN Return(None)
    ELSE IF ~is_autoscaling_enabled(c) THEN Return(None)
    ELSE LET autoscaling_params == get_autoscaling_params(c)
             min_replicas == get_min_instances(c)
             max_replicas == Val(get_max_instances(c))
         IN  IF autoscaling_params["decision_policy"] = "bespoke" THEN Return(None)
             ELSE IF min_replicas = 0 \/ max_replicas = 0 THEN Return(None)
             ELSE IF autoscaling_params["metrics_provider"] \notin {"mesos_cpu", "http", "uwsgi"}
             THEN Raise(Exc("ValueError", "unknown metrics_provider"))
             ELSE Bind(provider_metrics(c, cluster, autoscaling_params), LAMBDA m :
                    Return(Some(
                      [kind |-> "HorizontalPodAutoscaler",
                       metadata |-> [name |-> name, namespace |-> "paasta",
                                     annotations |-> m.annotations],
                       spec |-> [maxReplicas |-> max_replicas,
                                 minReplicas |-> min_replicas,
                                 metrics |-> m.metrics,
                                 scaleTargetRef |-> [apiVersion |-> "apps/v1",
                                                     kind |-> "Deployment",
                                                     name |-> name],
                                 behavior |-> get_autoscaling_scaling_policy(max_replicas)]])))

\* None, or the HorizontalPodAutoscaler as kube_client.jsonify serializes it,
\* with spec.behavior set (namespace is the default "paasta")
get_autoscaling_metric_spec(c, name, cluster) ==
    IF get_desired_state(c) = "stop" THEN Return(None)
    ELSE IF ~is_autoscaling_enabled(c) THEN Return(None)
    ELSE LET autoscaling_params == get_autoscaling_params(c)
             min_replicas == get_min_instances(c)
             max_replicas == Val(get_max_instances(c))
         IN  IF autoscaling_params["decision_policy"] = "bespoke" THEN Return(None)
             ELSE IF min_replicas = 0 \/ max_replicas = 0 THEN Return(None)
             ELSE IF autoscaling_params["metrics_provider"] \notin {"mesos_cpu", "http", "uwsgi"}
             THEN Return(None)
             ELSE Bind(provider_metrics(c, cluster, autoscaling_params), LAMBDA m :
                    Return(Some(
                      [kind |-> "HorizontalPodAutoscaler",
                       metadata |-> [name |-> name, namespace |-> "paasta",
                                     annotations |-> m.annotations],
                       spec |-> [maxReplicas |-> max_replicas,
                                 minReplicas |-> min_replicas,
                                 metrics |-> m.metrics,
                                 scaleTargetRef |-> [apiVersion |-> "apps/v1",
                                                     kind |-> "Deployment",
                                                     name |-> name],
                                 behavior |-> get_autoscaling_scaling_policy(max_replicas)]])))

---------------------------------------------------------------------------
(* The orchestrator as the secret-signature reads see it                    *)
(*                                                                         *)
(* kube.available: FALSE when the API answers every read with an error     *)
(* other than 404.  kube.config_maps: the signature of every config map of *)
(* namespace paasta that exists, by name.                                  *)

ApiException(status) == [type |-> "ApiException", status |-> status]

\* paasta_tools.secret_tools: an environment value is a plain string, or the
\* reference SECRET(text) or SHARED_SECRET(text)
PlainValue(text) == [ref |-> "", text |-> text]
SecretRef(text) == [ref |-> "SECRET", text |-> text]
SharedSecretRef(text) == [ref |-> "SHARED_SECRET", text |-> text]
is_secret_ref(v) == v.ref \in {"SECRET", "SHARED_SECRET"}
is_shared_secret(v) == v.ref = "SHARED_SECRET"
get_secret_name_from_ref(v) == v.text
SHARED_SECRET_SERVICE == <<"_", "s", "h", "a", "r", "e", "d">>

\* f"paasta-secret-{service}-{secret}-signature"
signature_name(service, secret) ==
    <<"p", "a", "a", "s", "t", "a", "-", "s", "e", "c", "r", "e", "t", "-">>
    \o service \o <<"-">> \o secret
    \o <<"-", "s", "i", "g", "n", "a", "t", "u", "r", "e">>

\* The signature, None on a 404; any other API error is raised
get_kubernetes_secret_signature(k, secret, service) ==
    LET name == signature_name(sanitise_kubernetes_name(service),
                               sanitise_kubernetes_name(secret))
    IN  IF ~k.available THEN Raise(ApiException(500))
        ELSE IF name \notin DOMAIN k.config_maps THEN Return(None)
        ELSE Return(Some(k.config_maps[name]))

\* A mutant: the signature of every secret is looked up under the service,
\* also that of a shared secret
get_kubernetes_secret_hashes_own_service(environment_variables, service, k) ==
    LET to_get_hash == {environment_variables[n] : n \in DOMAIN environment_variables}
        refs == {v \in to_get_hash : is_secret_ref(v)}
        signature(value) ==
            get_kubernetes_secret_signature(k, get_secret_name_from_ref(value), service)
    IN  IF \E v \in refs : signature(v).raised
        THEN signature(CHOOSE v \in refs : signature(v).raised)
        ELSE Return([v \in refs |-> signature(v).val])

\* environment_variables is the dict of the environment; the result maps every
\* secret reference among its values to the signature of the secret
get_kubernetes_secret_hashes(environment_variables, service, k) ==
    LET to_get_hash == {environment_variables[n] : n \in DOMAIN environment_variables}
        refs == {v \in to_get_hash : is_secret_ref(v)}
        signature(value) ==
            get_kubernetes_secret_signature(
                k, get_secret_name_from_ref(value),
                IF is_shared_secret(value) THEN SHARED_SECRET_SERVICE ELSE service)
    IN  IF \E v \in refs : signature(v).raised
        THEN signature(CHOOSE v \in refs : signature(v).raised)
        ELSE Return([v \in refs |-> signature(v).val])

---------------------------------------------------------------------------
(* The config hash input *)

CONFIG_HASH_BLACKLIST == {"replicas"}

\* InstanceConfig.get_env: the environment of the instance
get_env(c) == c.env

\* A mutant: only the top level of the manifest is filtered
sanitize_for_config_hash_top_only(c, config, k) ==
    LET ahash == [key \in DOMAIN config \ CONFIG_HASH_BLACKLIST |-> config[key]]
    IN  Bind(get_kubernetes_secret_hashes(get_env(c), c.service, k), LAMBDA hashes :
          Return([key \in DOMAIN ahash \cup {"paasta_secrets"} |->
                    IF key = "paasta_secrets" THEN hashes ELSE ahash[key]]))

\* config is the dict config.to_dict() of the manifest
sanitize_for_config_hash(c, config, k) ==
    LET ahash == [key \in DOMAIN config \ CONFIG_HASH_BLACKLIST |-> config[key]]
        spec == ahash["spec"]
        ahash_spec == [key \in DOMAIN spec \ CONFIG_HASH_BLACKLIST |-> spec[key]]
    IN  Bind(get_kubernetes_secret_hashes(get_env(c), c.service, k), LAMBDA hashes :
          Return([key \in DOMAIN ahash \cup {"paasta_secrets"} |->
                    IF key = "paasta_secrets" THEN hashes
                    ELSE IF key = "spec" THEN ahash_spec
                    ELSE ahash[key]]))

\* paasta_tools.utils.get_config_hash: the hash is kept as the value hashed
get_config_hash(config, force_bounce) == [hash_of |-> config, force_bounce |-> force_bounce]

---------------------------------------------------------------------------
(* The manifest *)

get_docker_url(c) ==
    IF IsNone(c.docker_url)
    THEN Raise(Exc("NoDockerImageError", "no docker image"))
    ELSE Return(Val(c.docker_url))

get_git_sha_from_dockerurl(docker_url) == docker_url.git_sha

get_kubernetes_metadata(c, git_sha) ==
    [name |-> get_sanitised_deployment_name(c), labels |-> default_labels(c, git_sha)]

app_selector(c) ==
    [match_labels |-> ("paasta.yelp.com/service" :> c.service)
                      @@ ("paasta.yelp.com/instance" :> c.instance)]

\* The V1StatefulSet or the V1Deployment before the config hash labels
AlnumChars ==
    {"a", "b", "c", "d", "e", "f", "g", "h", "i", "j", "k", "l", "m", "n", "o", "p", "q",
     "r", "s", "t", "u", "v", "w", "x", "y", "z",
     "A", "B", "C", "D", "E", "F", "G", "H", "I", "J", "K", "L", "M", "N", "O", "P", "Q",
     "R", "S", "T", "U", "V", "W", "X", "Y", "Z",
     "0", "1", "2", "3", "4", "5", "6", "7", "8", "9"}

\* _RE_NORMALIZE_IAM_ROLE.sub("-", iam_role): every run of other characters
\* becomes one "-"
RECURSIVE normalize_iam_role(_)
normalize_iam_role(s) ==
    IF s = <<>> THEN <<>>
    ELSE IF Head(s) \in AlnumChars THEN <<Head(s)>> \o normalize_iam_role(Tail(s))
    ELSE IF Len(s) > 1 /\ s[2] \notin AlnumChars THEN normalize_iam_role(Tail(s))
    ELSE <<"-">> \o normalize_iam_role(Tail(s))

get_iam_role_provider(c) == c.iam_role_provider
get_iam_role(c) == c.iam_role

\* The ServiceAccount create_or_find_service_account_name creates
service_account(sa_name, iam_role, namespace) ==
    [verb |-> "create", kind |-> "ServiceAccount", name |-> sa_name, namespace |-> namespace,
     annotations |-> [role_arn |-> iam_role]]

\* The name of the service account of the role and the orchestrator after the
\* call: k.service_accounts are the names list_namespaced_service_account
\* gives and k.writes the writes issued so far
create_or_find_service_account_name(iam_role, k) ==
    LET sa_name == <<"p", "a", "a", "s", "t", "a", "-", "-">> \o normalize_iam_role(iam_role)
    IN  IF ~k.available THEN [result |-> Raise(ApiException(500)), kube |-> k]
        ELSE IF sa_name \in k.service_accounts THEN [result |-> Return(sa_name), kube |-> k]
        ELSE [result |-> Return(sa_name),
              kube |-> [k EXCEPT !.service_accounts = @ \cup {sa_name},
                                 !.writes = Append(@, service_account(sa_name, iam_role,
                                                                      "paasta"))]]

\* The service account step of get_pod_template_spec
service_account_step(c, k) ==
    IF get_iam_role_provider(c) = "aws" /\ get_iam_role(c) # <<>>
    THEN create_or_find_service_account_name(get_iam_role(c), k)
    ELSE [result |-> Return(None), kube |-> k]

\* get_pod_template_spec with its service account step, which the template
\* is built after
pod_template_of(c, git_sha, k) ==
    Bind(get_pod_template_spec(c, git_sha), LAMBDA template :
      Bind(service_account_step(c, k).result, LAMBDA service_account_name :
        Return(template)))

complete_config_of(c, git_sha, k) ==
    IF get_persistent_volumes(c) # <<>>
    THEN Bind(get_desired_instances(c), LAMBDA replicas :
           Bind(pod_template_of(c, git_sha, k), LAMBDA template :
             Return([api_version |-> "apps/v1",
                     kind |-> "StatefulSet",
                     metadata |-> get_kubernetes_metadata(c, git_sha),
                     spec |-> [service_name |-> get_sanitised_deployment_name(c),
                               volume_claim_templates |-> get_volume_claim_templates(c),
                               replicas |-> replicas,
                               revision_history_limit |-> 0,
                               selector |-> app_selector(c),
                               template |-> template],
                     status |-> None])))
    ELSE Bind(get_desired_instances(c), LAMBDA replicas :
           Bind(pod_template_of(c, git_sha, k), LAMBDA template :
             Bind(get_deployment_strategy_config(c), LAMBDA strategy :
               Return([api_version |-> "apps/v1",
                       kind |-> "Deployment",
                       metadata |-> get_kubernetes_metadata(c, git_sha),
                       spec |-> [replicas |-> replicas,
                                 selector |-> app_selector(c),
                                 revision_history_limit |-> 0,
                                 template |-> template,
                                 strategy |-> strategy],
                       status |-> None]))))

\* complete_config with the config hash in the labels of the app and of the pods
with_config_sha(complete_config, config_hash) ==
    LET add(labels) == ("yelp.com/paasta_config_sha" :> config_hash)
                       @@ ("paasta.yelp.com/config_sha" :> config_hash)
                       @@ labels
    IN  [complete_config EXCEPT
           !.metadata.labels = add(@),
           !.spec.template.metadata.labels = add(@)]

\* The body of the try block
format_kubernetes_app_try(c, k) ==
    Bind(load_system_paasta_config(c), LAMBDA system_paasta_config :
      Bind(get_docker_url(c), LAMBDA docker_url :
        Bind(complete_config_of(c, get_git_sha_from_dockerurl(docker_url), k),
          LAMBDA complete_config :
            Bind(sanitize_for_config_hash(c, complete_config, k), LAMBDA sanitized :
              Return(with_config_sha(complete_config,
                                     get_config_hash(sanitized, c.force_bounce)))))))

\* A mutant: the failure of an assembly step escapes as it is
format_kubernetes_app_unwrapped(c, k) == format_kubernetes_app_try(c, k)

format_kubernetes_app(c, k) ==
    LET r == format_kubernetes_app_try(c, k)
    IN  IF r.raised
        THEN Raise(InvalidKubernetesConfig(r.exc, c.service, c.instance))
        ELSE r

\* The orchestrator after format_kubernetes_app: the service account step is
\* reached when every step before it returned
format_kubernetes_app_kube(c, k) ==
    LET system_paasta_config == load_system_paasta_config(c)
        docker_url == get_docker_url(c)
    IN  IF \/ system_paasta_config.raised
           \/ docker_url.raised
           \/ get_desired_instances(c).raised
           \/ get_pod_template_spec(c, get_git_sha_from_dockerurl(docker_url.val)).raised
        THEN k
        ELSE service_account_step(c, k).kube

---------------------------------------------------------------------------
(* Values the variables have where a specification does not use them *)

NoConfig == DefaultConfig
NoApp == [status |-> [ready_replicas |-> None, updated_replicas |-> None,
                      replicas |-> None]]
NoKube == [available |-> TRUE, config_maps |-> <<>>]

---------------------------------------------------------------------------
(* SpecStatus: the deploy status of every observed app *)

InitStatus ==
    /\ cfg = NoConfig
    /\ kube = NoKube
    /\ app \in [status : AppStatuses]
    /\ desired_instances \in Counts
    /\ ret = NoCall
    /\ last = "none"

GetKubernetesAppDeployStatus ==
    /\ ret' = Return(<<get_kubernetes_app_deploy_status(app, desired_instances), "">>)
    /\ last' = "get_kubernetes_app_deploy_status"
    /\ UNCHANGED <<cfg, app, desired_instances, kube>>

NextStatus == GetKubernetesAppDeployStatus

SpecStatus == InitStatus /\ [][NextStatus]_vars

StatusReturned == last = "get_kubernetes_app_deploy_status"
deploy_status == ret.val[1]

\* C1: the deploy status is the result of the first matching rule of the
\* ordered list: (1) ready absent -> Stopped if desired = 0 else Waiting;
\* (2) ready present and # desired -> Waiting; (3) updated present and
\* < desired -> Deploying; (4) replicas = 0 and desired = 0 -> Stopped;
\* (5) otherwise Running.  The call never raises.
C1_FirstMatchingRule ==
    StatusReturned =>
        LET ready == app.status.ready_replicas
            updated == app.status.updated_replicas
            rule1 == ready = None
            rule2 == ready # None /\ ready # Some(desired_instances)
            rule3 == updated # None /\ updated \in {Some(n) : n \in 0..(desired_instances - 1)}
            rule4 == app.status.replicas = Some(0) /\ desired_instances = 0
        IN  /\ ~ret.raised
            /\ rule1 => deploy_status = (IF desired_instances = 0 THEN Stopped ELSE Waiting)
            /\ ~rule1 /\ rule2 => deploy_status = Waiting
            /\ ~rule1 /\ ~rule2 /\ rule3 => deploy_status = Deploying
            /\ ~rule1 /\ ~rule2 /\ ~rule3 /\ rule4 => deploy_status = Stopped
            /\ ~rule1 /\ ~rule2 /\ ~rule3 /\ ~rule4 => deploy_status = Running

\* C1 witness: a status decided by rule 3 only after rules 1 and 2 did not match
C1_Witness ==
    /\ StatusReturned
    /\ app.status.ready_replicas = Some(desired_instances)
    /\ app.status.updated_replicas = Some(1)
    /\ desired_instances = 2
    /\ deploy_status = Deploying

\* C2 as stated: zero desired and zero observed replicas is Stopped whatever
\* ready_replicas and updated_replicas are.
C2_StoppedRegardless ==
    (StatusReturned /\ desired_instances = 0 /\ app.status.replicas = Some(0))
        => deploy_status = Stopped

\* C2 amended: zero desired and zero observed replicas is Stopped when
\* ready_replicas is absent or 0 (updated_replicas absent or any count >= 0);
\* a present ready_replicas other than 0 gives Waiting.
C2_StoppedWhenReadyAbsentOrZero ==
    (StatusReturned /\ desired_instances = 0 /\ app.status.replicas = Some(0))
        => IF app.status.ready_replicas \in {None, Some(0)}
           THEN deploy_status = Stopped
           ELSE deploy_status = Waiting

\* C2 witness: ready and updated both present and zero, so that rule 4 decides
C2_Witness ==
    /\ StatusReturned
    /\ desired_instances = 0
    /\ app.status.replicas = Some(0)
    /\ app.status.ready_replicas = Some(0)
    /\ app.status.updated_replicas = Some(0)
    /\ deploy_status = Stopped

---------------------------------------------------------------------------
(* SpecAffinity: the placement of the pod, for every allow-list, deny-list, *)
(* node_selectors and anti_affinity configuration                          *)

SelectorItems ==
    { <<"instance_type", PyStr("c5.large")>>,
      <<"instance_type", PyList(<<PyStr("c5.large"), PyStr("m5.large")>>)>>,
      <<"weight", PyList(<<PyDict([operator |-> "Gt", value |-> 10])>>)>>,
      <<"ssd", PyList(<<PyDict([operator |-> "Exists"])>>)>>,
      <<"ssd", PyList(<<PyDict([operator |-> "BadOp"])>>)>>,
      <<"ssd", PyList(<<>>)>> }

Conditions ==
    { [service |-> "other_svc"],
      [service |-> "other_svc", instance |-> "main"],
      [foo |-> "bar"] }

AntiAffinities ==
    {None} \cup {Some(PyDict(d)) : d \in Conditions \cup {EmptyDict}}
           \cup {Some(PyList(l)) : l \in SeqsUpTo(Conditions, MaxConditions)}

AffinityConfigs ==
    { [DefaultConfig EXCEPT !.deploy_whitelist = wl, !.deploy_blacklist = bl,
                            !.node_selectors = ns, !.anti_affinity = aa] :
        wl \in {None, Some(<<"habitat", <<"uswest1a", "uswest1b">>>>)},
        bl \in SeqsUpTo({<<"region", "useast1">>, <<"instance_type", "t2.micro">>},
                        MaxBlacklist),
        ns \in SeqsUpTo(SelectorItems, MaxSelectors),
        aa \in AntiAffinities }

InitAffinity ==
    /\ cfg \in AffinityConfigs
    /\ app = NoApp
    /\ desired_instances = 0
    /\ kube = NoKube
    /\ ret = NoCall
    /\ last = "none"

GetNodeAffinity ==
    /\ ret' = get_node_affinity(cfg)
    /\ last' = "get_node_affinity"
    /\ UNCHANGED <<cfg, app, desired_instances, kube>>

GetPodAntiAffinity ==
    /\ ret' = Return(get_pod_anti_affinity(cfg))
    /\ last' = "get_pod_anti_affinity"
    /\ UNCHANGED <<cfg, app, desired_instances, kube>>

GetPodTemplateSpec ==
    /\ ret' = get_pod_template_spec(cfg, "abc123")
    /\ last' = "get_pod_template_spec"
    /\ UNCHANGED <<cfg, app, desired_instances, kube>>

WhitelistBlacklistToRequirements ==
    /\ ret' = Return(_whitelist_blacklist_to_requirements(cfg))
    /\ last' = "_whitelist_blacklist_to_requirements"
    /\ UNCHANGED <<cfg, app, desired_instances, kube>>

NextAffinity ==
    \/ GetNodeAffinity
    \/ GetPodAntiAffinity
    \/ GetPodTemplateSpec
    \/ WhitelistBlacklistToRequirements

SpecAffinity == InitAffinity /\ [][NextAffinity]_vars

\* C3: the pod spec has no affinity object, or one with at least one node
\* selector requirement or at least one anti-affinity term; an affinity object
\* without node requirement and without anti-affinity term is never emitted.
C3_NoEmptyAffinity ==
    (last = "get_pod_template_spec" /\ ~ret.raised) =>
        LET affinity == ret.val.spec.affinity
            has_requirement(a) ==
                /\ ~IsNone(a.node_affinity)
                /\ \E t \in DOMAIN Val(a.node_affinity)
                              .required_during_scheduling_ignored_during_execution
                              .node_selector_terms :
                     Val(a.node_affinity).required_during_scheduling_ignored_during_execution
                       .node_selector_terms[t].match_expressions # <<>>
            has_term(a) ==
                /\ ~IsNone(a.pod_anti_affinity)
                /\ Val(a.pod_anti_affinity).required_during_scheduling_ignored_during_execution
                     # <<>>
        IN  IsNone(affinity) \/ has_requirement(Val(affinity)) \/ has_term(Val(affinity))

\* The requirements the allow-list and the deny-list of cfg stand for: one In
\* over the allowed values, then one NotIn per deny-list entry
ListRequirements ==
    (IF cfg.deploy_whitelist = None THEN <<>>
     ELSE << <<to_node_label(cfg.deploy_whitelist[1][1]), "In",
               cfg.deploy_whitelist[1][2]>> >>)
    \o [i \in 1..Len(cfg.deploy_blacklist) |->
          <<to_node_label(cfg.deploy_blacklist[i][1]), "NotIn",
            <<cfg.deploy_blacklist[i][2]>> >>]

\* C16: _whitelist_blacklist_to_requirements returns one In requirement over
\* the allowed values when an allow-list is configured, then one NotIn
\* requirement with a singleton value per deny-list entry, in order and with
\* duplicates kept; get_node_affinity puts these and the raw-selector
\* requirements into one selector term, and returns None when there are none.
C16_ListRequirementsInOneTerm ==
    /\ last = "_whitelist_blacklist_to_requirements" => ret = Return(ListRequirements)
    /\ (last = "get_node_affinity" /\ ~ret.raised) =>
          LET raw == _raw_selectors_to_requirements(cfg).val
              all == ListRequirements \o raw
          IN  IF all = <<>> THEN ret.val = None
              ELSE LET terms == ret.val[1].required_during_scheduling_ignored_during_execution
                                  .node_selector_terms
                   IN  /\ Len(terms) = 1
                       /\ Len(terms[1].match_expressions) = Len(all)
                       /\ \A i \in DOMAIN all :
                             terms[1].match_expressions[i]
                               = [key |-> all[i][1], operator |-> all[i][2],
                                  values |-> all[i][3]]

\* C16 witness: an allow-list and the same deny-list entry twice
C16_Witness ==
    /\ last = "_whitelist_blacklist_to_requirements"
    /\ cfg.deploy_whitelist # None
    /\ cfg.deploy_blacklist = << <<"region", "useast1">>, <<"region", "useast1">> >>
    /\ ret.val = << <<"yelp.com/habitat", "In", <<"uswest1a", "uswest1b">> >>,
                    <<"yelp.com/region", "NotIn", <<"useast1">> >>,
                    <<"yelp.com/region", "NotIn", <<"useast1">> >> >>

---------------------------------------------------------------------------
(* SpecSelectors: the requirements of node_selectors, for every list of    *)
(* labels with operator configs                                            *)

OperatorItems ==
    { <<"instance_type", PyStr("c5.large")>>,
      <<"instance_type", PyList(<<PyStr("c5.large"), PyStr("m5.large")>>)>>,
      <<"weight", PyList(<<PyDict([operator |-> "Gt", value |-> 10])>>)>>,
      <<"pool", PyList(<<PyDict([operator |-> "NotIn", values |-> <<"a", "b">>]),
                         PyDict([operator |-> "Lt", value |-> 3])>>)>>,
      <<"gpu", PyList(<<PyDict([operator |-> "DoesNotExist"]),
                        PyDict([operator |-> "In", values |-> <<"k80">>])>>)>>,
      <<"ssd", PyList(<<PyDict([operator |-> "Exists", values |-> <<"yes">>])>>)>>,
      <<"ssd", PyList(<<PyDict([operator |-> "Exists"]),
                        PyDict([operator |-> "BadOp", values |-> <<"x">>])>>)>>,
      <<"region", PyList(<<PyDict([operator |-> "in", values |-> <<"x">>])>>)>>,
      <<"ssd", PyList(<<>>)>> }

\* node_selectors is a dict: no label comes twice
SelectorConfigs ==
    { [DefaultConfig EXCEPT !.node_selectors = ns] :
        ns \in { l \in SeqsUpTo(OperatorItems, MaxLabels) :
                   \A i, j \in DOMAIN l : l[i][1] = l[j][1] => i = j } }

InitSelectors ==
    /\ cfg \in SelectorConfigs
    /\ app = NoApp
    /\ desired_instances = 0
    /\ kube = NoKube
    /\ ret = NoCall
    /\ last = "none"

RawSelectorsToRequirements ==
    /\ ret' = _raw_selectors_to_requirements(cfg)
    /\ last' = "_raw_selectors_to_requirements"
    /\ UNCHANGED <<cfg, app, desired_instances, kube>>

NextSelectors == RawSelectorsToRequirements

SpecSelectors == InitSelectors /\ [][NextSelectors]_vars

\* The (label, operator config) entries of the items, in order; a list of
\* strings is the one entry In over the strings
RECURSIVE OperatorEntries(_)
OperatorEntries(items) ==
    IF items = <<>> THEN <<>>
    ELSE LET label == Head(items)[1]
             configs == Head(items)[2]
         IN  (IF configs.type # "list" THEN <<>>
              ELSE IF configs.items = <<>> THEN <<>>
              ELSE IF configs.items[1].type = "str"
              THEN << <<label, [operator |-> "In",
                                values |-> [i \in DOMAIN configs.items |->
                                              configs.items[i].s]]>> >>
              ELSE [i \in DOMAIN configs.items |-> <<label, configs.items[i].d>>])
             \o OperatorEntries(Tail(items))

SixOperators == {"In", "NotIn", "Exists", "DoesNotExist", "Gt", "Lt"}

\* C17: every operator entry of node_selectors gives exactly one requirement:
\* In and NotIn with the configured values, Exists and DoesNotExist with no
\* value, Gt and Lt with the one string of the configured value; an entry with
\* any other operator makes _raw_selectors_to_requirements raise.
C17_OneRequirementPerOperator ==
    last = "_raw_selectors_to_requirements" =>
        LET entries == OperatorEntries(cfg.node_selectors)
        IN  IF \E i \in DOMAIN entries : entries[i][2].operator \notin SixOperators
            THEN ret.raised /\ ret.exc.type = "ValueError"
            ELSE /\ ~ret.raised
                 /\ Len(ret.val) = Len(entries)
                 /\ \A i \in DOMAIN entries :
                       LET config == entries[i][2]
                       IN  /\ ret.val[i][1] = to_node_label(entries[i][1])
                           /\ ret.val[i][2] = config.operator
                           /\ ret.val[i][3]
                                = (CASE config.operator \in {"In", "NotIn"} -> config.values
                                     [] config.operator \in {"Exists", "DoesNotExist"} -> <<>>
                                     [] config.operator = "Gt" -> <<"10">>
                                     [] config.operator = "Lt" -> <<"3">>)

\* C17 witness: a label with a good operator, then a label whose second
\* operator is unknown
C17_Witness ==
    /\ last = "_raw_selectors_to_requirements"
    /\ Len(cfg.node_selectors) = 2
    /\ cfg.node_selectors[1][1] = "weight"
    /\ cfg.node_selectors[2][2]
         = PyList(<<PyDict([operator |-> "Exists"]),
                    PyDict([operator |-> "BadOp", values |-> <<"x">>])>>)
    /\ ret.raised

---------------------------------------------------------------------------
(* SpecAntiAffinity: the pod anti-affinity, for every list of conditions   *)

AntiAffinityConditions ==
    { [service |-> "other_svc"],
      [instance |-> "main"],
      [service |-> "other_svc", instance |-> "main"],
      [service |-> "other_svc", foo |-> "bar"],
      [foo |-> "bar"] }

AntiAffinityConfigs ==
    { [DefaultConfig EXCEPT !.anti_affinity = aa] :
        aa \in {None}
               \cup {Some(PyDict(d)) : d \in AntiAffinityConditions \cup {EmptyDict}}
               \cup {Some(PyList(l)) : l \in SeqsUpTo(AntiAffinityConditions, MaxTerms)} }

InitAntiAffinity ==
    /\ cfg \in AntiAffinityConfigs
    /\ app = NoApp
    /\ desired_instances = 0
    /\ kube = NoKube
    /\ ret = NoCall
    /\ last = "none"

NextAntiAffinity == GetPodAntiAffinity

SpecAntiAffinity == InitAntiAffinity /\ [][NextAntiAffinity]_vars

\* The configured conditions as a list: a single condition is a list of one
ConfiguredConditions ==
    IF cfg.anti_affinity = None THEN <<>>
    ELSE IF cfg.anti_affinity[1].type = "list" THEN cfg.anti_affinity[1].items
    ELSE IF cfg.anti_affinity[1].d = EmptyDict THEN <<>>
    ELSE <<cfg.anti_affinity[1].d>>

HasServiceOrInstance(condition) ==
    "service" \in DOMAIN condition \/ "instance" \in DOMAIN condition

\* The term is the one of the condition: the hostname topology and the
\* paasta-prefixed labels of the service and instance keys of the condition
TermOf(term, condition) ==
    /\ term.topology_key = "kubernetes.io/hostname"
    /\ DOMAIN term.label_selector.match_labels
         = {"paasta.yelp.com/" \o k : k \in {"service", "instance"} \cap DOMAIN condition}
    /\ \A k \in {"service", "instance"} \cap DOMAIN condition :
          term.label_selector.match_labels["paasta.yelp.com/" \o k] = condition[k]

AntiAffinityReturned == last = "get_pod_anti_affinity" /\ ~ret.raised

\* C18 as stated: get_pod_anti_affinity gives exactly one term per configured
\* condition, with the service label iff the condition has a service key and
\* the instance label iff it has an instance key; other keys appear nowhere.
C18_OneTermPerCondition ==
    (AntiAffinityReturned /\ ConfiguredConditions # <<>>) =>
        /\ ret.val # None
        /\ LET terms == ret.val[1].required_during_scheduling_ignored_during_execution
           IN  /\ Len(terms) = Len(ConfiguredConditions)
               /\ \A i \in DOMAIN terms : TermOf(terms[i], ConfiguredConditions[i])

\* C18 amended: get_pod_anti_affinity gives exactly one term per configured
\* condition that has a service or an instance key, in order, with the labels
\* of those keys only; a condition with neither key gives no term, and no
\* condition makes it fail.  Without a condition it returns None.
C18_OneTermPerKeyedCondition ==
    /\ last = "get_pod_anti_affinity" => ~ret.raised
    /\ AntiAffinityReturned =>
          IF ConfiguredConditions = <<>> THEN ret.val = None
          ELSE LET terms == IF ret.val = None THEN <<>>
                            ELSE ret.val[1].required_during_scheduling_ignored_during_execution
                   keyed == SelectSeq(ConfiguredConditions, HasServiceOrInstance)
               IN  /\ keyed # <<>> => ret.val # None
                   /\ Len(terms) = Len(keyed)
                   /\ \A i \in DOMAIN terms : TermOf(terms[i], keyed[i])

\* C18 witness: three conditions, the second without service and instance
C18_Witness ==
    /\ AntiAffinityReturned
    /\ cfg.anti_affinity
         = Some(PyList(<< [service |-> "other_svc", foo |-> "bar"], [foo |-> "bar"],
                          [instance |-> "main"] >>))
    /\ Len(ret.val[1].required_during_scheduling_ignored_during_execution) = 2

---------------------------------------------------------------------------
(* SpecContainer: the command and the liveness probe of the container, for *)
(* every shape of cmd and every healthcheck mode                           *)

Commands ==
    { PyStr("run"), PyStr(""), PyList(<<"run", "--fast">>), PyList(<<>>),
      PyInt(5), PyInt(0), PyDict([run |-> "fast"]), PyDict(EmptyDict) }

HealthcheckModes == {"http", "https", "tcp", "cmd", "udp", "HTTP", ""}

ContainerConfigs ==
    { [DefaultConfig EXCEPT !.cmd = cmd, !.healthcheck_mode = mode] :
        cmd \in {None} \cup {Some(v) : v \in Commands},
        mode \in {None} \cup {Some(m) : m \in HealthcheckModes} }

InitContainer ==
    /\ cfg \in ContainerConfigs
    /\ app = NoApp
    /\ desired_instances = 0
    /\ kube = NoKube
    /\ ret = NoCall
    /\ last = "none"

GetCmd ==
    /\ ret' = get_cmd(cfg)
    /\ last' = "get_cmd"
    /\ UNCHANGED <<cfg, app, desired_instances, kube>>

GetLivenessProbe ==
    /\ ret' = get_liveness_probe(cfg)
    /\ last' = "get_liveness_probe"
    /\ UNCHANGED <<cfg, app, desired_instances, kube>>

NextContainer == GetCmd \/ GetLivenessProbe

SpecContainer == InitContainer /\ [][NextContainer]_vars

\* What get_cmd owes for a string, a list and any other shape of cmd
CmdResult(cmd) ==
    CASE cmd.type = "str" -> ret = Return(Some(<<"sh", "-c", cmd.s>>))
      [] cmd.type = "list" -> ret = Return(Some(cmd.items))
      [] OTHER -> ret.raised /\ ret.exc.type = "ValueError"

\* C19 as stated: get_cmd wraps a configured string as [sh, -c, s], returns a
\* configured list unchanged and fails for every other configured value,
\* falsy ones included; it returns no command only when none is configured.
C19_EveryConfiguredCmd ==
    last = "get_cmd" =>
        IF cfg.cmd = None THEN ret = Return(None) ELSE CmdResult(cfg.cmd[1])

\* C19 amended: get_cmd wraps a non-empty string as [sh, -c, s], returns a
\* non-empty list unchanged and fails for every truthy value of another
\* shape; it returns no command when none is configured and when the
\* configured command is the empty string or the empty list.
C19_EveryTruthyCmd ==
    last = "get_cmd" =>
        IF cfg.cmd = None \/ cfg.cmd = Some(PyStr("")) \/ cfg.cmd = Some(PyList(<<>>))
        THEN ret = Return(None)
        ELSE Truthy(cfg.cmd[1]) => CmdResult(cfg.cmd[1])

\* C19 witness: a mapping as cmd fails
C19_Witness ==
    /\ last = "get_cmd"
    /\ cfg.cmd = Some(PyDict([run |-> "fast"]))
    /\ ret.raised
    /\ ret.exc.type = "ValueError"

\* The actions a probe has set
ProbeActions(probe) == {a \in {"http_get", "tcp_socket", "_exec"} : probe[a] # None}

\* C20: get_liveness_probe sets exactly one action: http and https the
\* HTTP-get action with the upper-cased mode as scheme, tcp the TCP-socket
\* action on the container port, cmd the exec action of /bin/sh -c with the
\* healthcheck command; every other mode raises InvalidHealthcheckMode; no
\* probe with no action or several actions is returned (without a mode there
\* is no probe).
C20_OneProbeAction ==
    last = "get_liveness_probe" =>
        IF cfg.healthcheck_mode = None THEN ret = Return(None)
        ELSE LET mode == cfg.healthcheck_mode[1]
             IN  IF mode \notin {"http", "https", "tcp", "cmd"}
                 THEN ret.raised /\ ret.exc.type = "InvalidHealthcheckMode"
                 ELSE /\ ~ret.raised
                      /\ ret.val # None
                      /\ Cardinality(ProbeActions(ret.val[1])) = 1
                      /\ mode = "http" => ret.val[1].http_get = Some([scheme |-> "HTTP"])
                      /\ mode = "https" => ret.val[1].http_get = Some([scheme |-> "HTTPS"])
                      /\ mode = "tcp" =>
                            ret.val[1].tcp_socket = Some([port |-> "container_port"])
                      /\ mode = "cmd" =>
                            ret.val[1]._exec
                              = Some([command |-> <<"/bin/sh", "-c", "healthcheck_cmd">>])

\* C20 witness: the mode udp is refused
C20_Witness ==
    /\ last = "get_liveness_probe"
    /\ cfg.healthcheck_mode = Some("udp")
    /\ ret.raised
    /\ ret.exc.type = "InvalidHealthcheckMode"

---------------------------------------------------------------------------
(* SpecCompile: the compilation of the manifest, for configurations that   *)
(* make every assembly step succeed or fail                                *)

EbsVolume == [volume_id |-> <<"v", "o", "l", "-", "1">>,
              container_path |-> <<"/", "e", "b", "s">>]
PersistentVolume == [container_path |-> <<"/", "d", "a", "t", "a">>, size |-> 10]

KnownProviders == {"mesos_cpu", "http", "uwsgi"}

CompileConfigs ==
    { [DefaultConfig EXCEPT
         !.bounce_method = bm, !.aws_ebs_volumes = ebs, !.persistent_volumes = pvs,
         !.instances = n, !.cmd = cmd, !.healthcheck_mode = mode,
         !.node_selectors = ns, !.system_paasta_config = sys,
         !.autoscaling = au, !.max_instances = Some(MaxInstances),
         !.env = [PASSWORD |-> SecretRef(<<"p", "w">>)]] :
        bm \in {None, Some("crossover"), Some("downthenup"), Some("brutal")},
        ebs \in SeqsUpTo({EbsVolume}, MaxVolumes),
        pvs \in SeqsUpTo({PersistentVolume}, MaxVolumes),
        n \in 0..MaxInstances,
        cmd \in {None, Some(PyStr("run")), Some(PyInt(5))},
        mode \in {None, Some("https"), Some("udp")},
        ns \in {<<>>, << <<"ssd", PyList(<<PyDict([operator |-> "BadOp"])>>)>> >>},
        sys \in {None, DefaultConfig.system_paasta_config},
        au \in {EmptyDict, [metrics_provider |-> "uwsgi"], [metrics_provider |-> "cpu"]} }

InitCompile ==
    /\ cfg \in CompileConfigs
    /\ app = NoApp
    /\ desired_instances = 0
    /\ kube \in [available : BOOLEAN, config_maps : {NoKube.config_maps}]
    /\ ret = NoCall
    /\ last = "none"

GetBounceMethod ==
    /\ ret' = get_bounce_method(cfg)
    /\ last' = "get_bounce_method"
    /\ UNCHANGED <<cfg, app, desired_instances, kube>>

GetDesiredInstances ==
    /\ ret' = get_desired_instances(cfg)
    /\ last' = "get_desired_instances"
    /\ UNCHANGED <<cfg, app, desired_instances, kube>>

FormatKubernetesApp ==
    /\ ret' = format_kubernetes_app(cfg, kube)
    /\ kube' = format_kubernetes_app_kube(cfg, kube)
    /\ last' = "format_kubernetes_app"
    /\ UNCHANGED <<cfg, app, desired_instances>>

GetAutoscalingMetricSpec ==
    /\ ret' = get_autoscaling_metric_spec(cfg, get_sanitised_deployment_name(cfg),
                                          cfg.cluster)
    /\ last' = "get_autoscaling_metric_spec"
    /\ UNCHANGED <<cfg, app, desired_instances, kube>>

NextCompile ==
    \/ GetBounceMethod
    \/ GetDesiredInstances
    \/ FormatKubernetesApp
    \/ GetAutoscalingMetricSpec

SpecCompile == InitCompile /\ [][NextCompile]_vars

HasEbs == cfg.aws_ebs_volumes # <<>>
HasPersistent == cfg.persistent_volumes # <<>>
ConfiguredBounce == IF cfg.bounce_method = None THEN "crossover" ELSE cfg.bounce_method[1]

\* C4: get_bounce_method raises for every configuration with an EBS volume
\* whose bounce method, explicit or defaulted to crossover, is not downthenup;
\* it returns downthenup when an EBS volume is there and the method is
\* downthenup; without EBS volume it never raises and returns the method.
C4_BounceMethodWithEbs ==
    last = "get_bounce_method" =>
        /\ (HasEbs /\ ConfiguredBounce # "downthenup") => ret.raised
        /\ (HasEbs /\ ConfiguredBounce = "downthenup") =>
              (~ret.raised /\ ret.val = "downthenup")
        /\ ~HasEbs => (~ret.raised /\ ret.val = ConfiguredBounce)

\* C4 witness: an EBS volume and no bounce_method configured: the default
\* crossover is refused
C4_Witness ==
    /\ last = "get_bounce_method"
    /\ HasEbs
    /\ cfg.bounce_method = None
    /\ ret.raised

\* C5 as stated: with a persistent volume, no manifest is produced with a
\* replica count outside {0, 1}, and get_desired_instances fails for such a count.
C5_PersistentRestrictsReplicas ==
    /\ (last = "format_kubernetes_app" /\ HasPersistent /\ ~ret.raised)
           => ret.val.spec.replicas \in {0, 1}
    /\ (last = "get_desired_instances" /\ HasPersistent /\ ~ret.raised)
           => ret.val \in {0, 1}

\* C5 amended: with an EBS volume (aws_ebs_volumes), no manifest of either
\* kind is produced with a replica count outside {0, 1}, and
\* get_desired_instances fails exactly for such a count; persistent volumes
\* alone do not restrict the replica count.
C5_EbsRestrictsReplicas ==
    /\ (last = "format_kubernetes_app" /\ HasEbs /\ ~ret.raised)
           => ret.val.spec.replicas \in {0, 1}
    /\ (last = "get_desired_instances" /\ HasEbs)
           => (ret.raised <=> cfg.instances \notin {0, 1})
    /\ (last = "get_desired_instances" /\ ~HasEbs)
           => (~ret.raised /\ ret.val = cfg.instances)

\* C5 witness: an EBS volume and two instances: get_desired_instances fails
C5_Witness ==
    /\ last = "get_desired_instances"
    /\ HasEbs
    /\ cfg.instances = 2
    /\ ret.raised

\* The assembly step that fails first, in the order format_kubernetes_app
\* runs them: "" when none does
FailingStep ==
    IF cfg.system_paasta_config = None THEN "PaastaNotConfiguredError"
    ELSE IF HasEbs /\ cfg.instances \notin {0, 1} THEN "Exception"
    ELSE IF cfg.cmd = Some(PyInt(5)) THEN "ValueError"
    ELSE IF cfg.healthcheck_mode = Some("udp") THEN InvalidHealthcheckMode
    ELSE IF cfg.node_selectors # <<>> THEN "ValueError"
    ELSE IF ~HasPersistent /\ HasEbs /\ ConfiguredBounce # "downthenup" THEN "Exception"
    ELSE IF ~kube.available THEN "ApiException"
    ELSE ""

\* C8: format_kubernetes_app returns a complete manifest or raises
\* InvalidKubernetesConfig, which carries the service, the instance and the
\* failure of the assembly step that failed; it raises exactly when a step
\* fails, and no other error kind escapes.
C8_CompleteOrInvalidConfig ==
    last = "format_kubernetes_app" =>
        IF FailingStep # ""
        THEN /\ ret.raised
             /\ ret.exc.type = "InvalidKubernetesConfig"
             /\ ret.exc.service = cfg.service
             /\ ret.exc.instance = cfg.instance
             /\ ret.exc.exception.type = FailingStep
        ELSE /\ ~ret.raised
             /\ ret.val.kind = (IF HasPersistent THEN "StatefulSet" ELSE "Deployment")
             /\ ret.val.spec.replicas = cfg.instances
             /\ Len(ret.val.spec.template.spec.containers) = 1
             /\ "paasta.yelp.com/config_sha" \in DOMAIN ret.val.metadata.labels
             /\ "paasta.yelp.com/config_sha"
                   \in DOMAIN ret.val.spec.template.metadata.labels
             /\ HasPersistent =>
                   Len(ret.val.spec.volume_claim_templates) = Len(cfg.persistent_volumes)
             /\ ~HasPersistent => ret.val.spec.strategy.type \in {"RollingUpdate", "Recreate"}

\* C8 witness: an invalid healthcheck mode is reported as InvalidKubernetesConfig
C8_Witness ==
    /\ last = "format_kubernetes_app"
    /\ ret.raised
    /\ ret.exc.type = "InvalidKubernetesConfig"
    /\ ret.exc.exception.type = InvalidHealthcheckMode

UnknownProvider ==
    /\ "metrics_provider" \in DOMAIN cfg.autoscaling
    /\ cfg.autoscaling["metrics_provider"] \notin KnownProviders

\* C10: with a metrics_provider outside {mesos_cpu, http, uwsgi},
\* get_autoscaling_metric_spec returns None without raising, and
\* format_kubernetes_app succeeds or fails as it does for the same
\* configuration with the default provider, without autoscaling annotation.
C10_UnknownProviderNeverFails ==
    /\ (last = "get_autoscaling_metric_spec" /\ UnknownProvider)
           => (~ret.raised /\ ret.val = None)
    /\ (last = "format_kubernetes_app" /\ UnknownProvider)
           => /\ ret.raised = (FailingStep # "")
              /\ ~ret.raised =>
                    "autoscaling" \notin DOMAIN ret.val.spec.template.metadata.annotations

\* C10 witness: autoscaling is on, the bounds are not zero, and the unknown
\* provider is what makes the result None
C10_Witness ==
    /\ last = "get_autoscaling_metric_spec"
    /\ UnknownProvider
    /\ cfg.desired_state = "start"
    /\ cfg.max_instances # None
    /\ ret = Return(None)

---------------------------------------------------------------------------
(* SpecManifest: the variant of the manifest and its volume claim          *)
(* templates, for every list of persistent volumes                         *)

LogVolume == [container_path |-> <<"/", "l", "o", "g", ".", "d", "/">>, size |-> 20]

ManifestConfigs ==
    { [DefaultConfig EXCEPT
         !.persistent_volumes = pvs, !.aws_ebs_volumes = ebs,
         !.instances = n, !.bounce_method = bm] :
        pvs \in SeqsUpTo({PersistentVolume, LogVolume}, MaxClaims),
        ebs \in SeqsUpTo({EbsVolume}, MaxVolumes),
        n \in 0..MaxInstances,
        bm \in {None, Some("downthenup"), Some("brutal")} }

InitManifest ==
    /\ cfg \in ManifestConfigs
    /\ app = NoApp
    /\ desired_instances = 0
    /\ kube = NoKube
    /\ ret = NoCall
    /\ last = "none"

NextManifest == FormatKubernetesApp

SpecManifest == InitManifest /\ [][NextManifest]_vars

Compiled == last = "format_kubernetes_app" /\ ~ret.raised

\* C15: the manifest is a StatefulSet iff the configuration has a persistent
\* volume and a Deployment otherwise; a StatefulSet has one volume claim
\* template per persistent volume, in the order of the configuration, each
\* named by get_persistent_volume_name of its volume; a Deployment has none.
C15_StatefulSetIffPersistent ==
    Compiled =>
        /\ ret.val.kind = (IF cfg.persistent_volumes # <<>> THEN "StatefulSet"
                           ELSE "Deployment")
        /\ ret.val.kind = "StatefulSet" =>
              /\ Len(ret.val.spec.volume_claim_templates) = Len(cfg.persistent_volumes)
              /\ \A i \in DOMAIN cfg.persistent_volumes :
                    ret.val.spec.volume_claim_templates[i].metadata.name
                      = get_persistent_volume_name(cfg.persistent_volumes[i])
        /\ ret.val.kind = "Deployment" =>
              "volume_claim_templates" \notin DOMAIN ret.val.spec

\* C15 witness: two different persistent volumes, two templates in order
C15_Witness ==
    /\ Compiled
    /\ cfg.persistent_volumes = <<LogVolume, PersistentVolume>>
    /\ ret.val.kind = "StatefulSet"
    /\ ret.val.spec.volume_claim_templates[1].metadata.name
         = <<"p", "v", "-", "-", "s", "l", "a", "s", "h", "-", "l", "o", "g",
             "d", "o", "t", "-", "d">>
    /\ ret.val.spec.volume_claim_templates[2].metadata.name
         = <<"p", "v", "-", "-", "s", "l", "a", "s", "h", "-", "d", "a", "t", "a">>

---------------------------------------------------------------------------
(* SpecStrategy: the deployment strategy, for every bounce method and      *)
(* every margin factor 0.01, 0.02, ..., 1.00                               *)

\* The margin factors of (0, 1] in hundredths
MarginFactors == 1..100

StrategyConfigs ==
    { [DefaultConfig EXCEPT
         !.bounce_method = bm, !.bounce_margin_factor = m, !.aws_ebs_volumes = ebs] :
        bm \in {None, Some("crossover"), Some("downthenup"), Some("brutal"),
                Some("upthendown")},
        m \in {None} \cup {Some(f) : f \in MarginFactors},
        ebs \in {<<>>, <<EbsVolume>>} }

InitStrategy ==
    /\ cfg \in StrategyConfigs
    /\ app = NoApp
    /\ desired_instances = 0
    /\ kube = NoKube
    /\ ret = NoCall
    /\ last = "none"

GetDeploymentStrategyConfig ==
    /\ ret' = get_deployment_strategy_config(cfg)
    /\ last' = "get_deployment_strategy_config"
    /\ UNCHANGED <<cfg, app, desired_instances, kube>>

NextStrategy == GetDeploymentStrategyConfig

SpecStrategy == InitStrategy /\ [][NextStrategy]_vars

StrategyReturned == last = "get_deployment_strategy_config" /\ ~ret.raised

\* The configured margin factor in hundredths, 1.0 when none is configured
ConfiguredMargin ==
    IF cfg.bounce_margin_factor = None THEN 100 ELSE cfg.bounce_margin_factor[1]

\* C13: for crossover and every margin factor m of (0, 1] the strategy is
\* RollingUpdate with maxSurge "100%" and maxUnavailable "P%", where
\* P = round(100 * (1 - m)); so 0.9 gives "10%" and 1 gives "0%".
C13_MaxUnavailableIsRounded ==
    (StrategyReturned /\ ConfiguredBounce = "crossover") =>
        /\ ret.val.type = "RollingUpdate"
        /\ ret.val.rolling_update
             = Some([max_surge |-> "100%",
                     max_unavailable |-> str(100 - ConfiguredMargin) \o "%"])

\* C14: brutal gives RollingUpdate with maxSurge and maxUnavailable "100%"
\* for every margin factor, downthenup gives Recreate without rolling-update
\* parameters, and the parameters are present exactly for crossover and
\* brutal.
C14_BrutalAndRecreate ==
    StrategyReturned =>
        /\ ConfiguredBounce = "brutal" =>
              ret.val = [type |-> "RollingUpdate",
                         rolling_update |-> Some([max_surge |-> "100%",
                                                  max_unavailable |-> "100%"])]
        /\ ConfiguredBounce = "downthenup" =>
              ret.val = [type |-> "Recreate", rolling_update |-> None]
        /\ ret.val.rolling_update # None <=> ConfiguredBounce \in {"crossover", "brutal"}

\* C14 witness: brutal with margin factor 0.5
C14_Witness ==
    /\ StrategyReturned
    /\ cfg.bounce_method = Some("brutal")
    /\ cfg.bounce_margin_factor = Some(50)
    /\ ret.val.rolling_update = Some([max_surge |-> "100%", max_unavailable |-> "100%"])

---------------------------------------------------------------------------
(* SpecAutoscale: the autoscaling policy, for every combination of the     *)
(* desired state, the instance bounds and the autoscaling parameters       *)

\* The dict with key k when the option o is a value, the empty dict otherwise
Entry(k, o) == IF o = None THEN EmptyDict ELSE k :> o[1]

AutoscalingDicts ==
    { Entry("decision_policy", dp) @@ Entry("metrics_provider", mp)
        @@ Entry("forecast_policy", fp) @@ Entry("offset", off)
        @@ Entry("setpoint", sp) :
        dp \in {None, Some("bespoke")},
        mp \in {None, Some("http"), Some("uwsgi"), Some("cpu")},
        fp \in {None, Some("moving_average"), Some("current")},
        off \in {None, Some(0), Some(5)},
        sp \in {None, Some(50)} }

OptInstances == {None} \cup {Some(n) : n \in 0..MaxInstances}

AutoscaleConfigs ==
    { [DefaultConfig EXCEPT
         !.desired_state = ds, !.min_instances = mn, !.max_instances = mx,
         !.autoscaling = au,
         !.system_paasta_config = Some([hpa_always_uses_external_for_signalfx |-> ext])] :
        ds \in {"start", "stop"}, mn \in OptInstances, mx \in OptInstances,
        au \in AutoscalingDicts, ext \in BOOLEAN }

InitAutoscale ==
    /\ cfg \in AutoscaleConfigs
    /\ app = NoApp
    /\ desired_instances = 0
    /\ kube = NoKube
    /\ ret = NoCall
    /\ last = "none"

NextAutoscale == GetAutoscalingMetricSpec

SpecAutoscale == InitAutoscale /\ [][NextAutoscale]_vars

ConfiguredDecisionPolicy ==
    IF "decision_policy" \in DOMAIN cfg.autoscaling
    THEN cfg.autoscaling["decision_policy"] ELSE "proportional"
ConfiguredProvider ==
    IF "metrics_provider" \in DOMAIN cfg.autoscaling
    THEN cfg.autoscaling["metrics_provider"] ELSE "mesos_cpu"

\* C9: get_autoscaling_metric_spec returns None when the desired state is
\* stop, autoscaling is not enabled (no max_instances), the decision policy is
\* bespoke, min_instances is 0 or max_instances is 0, whatever the other
\* parameters; in every other case with a known metrics provider it returns a
\* policy whose bounds are min_instances (default 1) and max_instances.
C9_NoPolicyCases ==
    last = "get_autoscaling_metric_spec" =>
        IF \/ cfg.desired_state = "stop"
           \/ cfg.max_instances = None
           \/ ConfiguredDecisionPolicy = "bespoke"
           \/ cfg.min_instances = Some(0)
           \/ cfg.max_instances = Some(0)
        THEN ret = Return(None)
        ELSE ConfiguredProvider \in KnownProviders =>
               /\ ~ret.raised
               /\ ret.val # None
               /\ ret.val[1].spec.minReplicas
                    = (IF cfg.min_instances = None THEN 1 ELSE cfg.min_instances[1])
               /\ ret.val[1].spec.maxReplicas = cfg.max_instances[1]

\* C9 witness: only min_instances = 0 keeps the policy from being built
C9_Witness ==
    /\ last = "get_autoscaling_metric_spec"
    /\ cfg.desired_state = "start"
    /\ cfg.min_instances = Some(0)
    /\ cfg.max_instances = Some(2)
    /\ ConfiguredDecisionPolicy = "proportional"
    /\ ConfiguredProvider = "http"
    /\ ret = Return(None)

\* The policy returned for provider http or uwsgi
SignalfxPolicy ==
    /\ last = "get_autoscaling_metric_spec"
    /\ ~ret.raised
    /\ ret.val # None
    /\ ConfiguredProvider \in {"http", "uwsgi"}

ConfiguredSetpoint ==
    IF "setpoint" \in DOMAIN cfg.autoscaling THEN cfg.autoscaling["setpoint"] ELSE 80

AlwaysExternal == cfg.system_paasta_config[1].hpa_always_uses_external_for_signalfx

\* The one metric of the policy is the External metric with target Value 1,
\* named after the deployment, its query under the annotation of that name
IsExternalMetric(hpa) ==
    LET metric == hpa.spec.metrics[1]
        hpa_metric_name == get_sanitised_deployment_name(cfg) \o <<"-">>
                             \o chars_of(ConfiguredProvider)
    IN  /\ metric.type = "External"
        /\ metric.external.target = [type |-> "Value", value |-> 1]
        /\ metric.external.metric.name = hpa_metric_name
        /\ Len(hpa.metadata.annotations) = 2
        /\ hpa.metadata.annotations[2][1]
             = <<"signalfx.com.external.metric/", hpa_metric_name>>
        /\ hpa.metadata.annotations[2][2].setpoint = ConfiguredSetpoint
        /\ hpa.metadata.annotations[2][2].signalfx_metric_name = ConfiguredProvider

\* The one metric of the policy is the Pods metric with the setpoint as
\* AverageValue, selected by the paasta_cluster label
IsPodsMetric(hpa) ==
    LET metric == hpa.spec.metrics[1]
    IN  /\ metric.type = "Pods"
        /\ metric.pods.target = [type |-> "AverageValue",
                                 average_value |-> ConfiguredSetpoint]
        /\ metric.pods.metric.name = ConfiguredProvider
        /\ metric.pods.metric.selector = [match_labels |-> [paasta_cluster |-> cfg.cluster]]

\* C11 as stated: for http and uwsgi the policy has exactly one metric, the
\* External one iff a forecast policy is configured, an offset is configured
\* or the always-external flag is set, the Pods one otherwise.
C11_ExternalIffForecastConfigured ==
    SignalfxPolicy =>
        /\ Len(ret.val[1].spec.metrics) = 1
        /\ IF \/ "forecast_policy" \in DOMAIN cfg.autoscaling
              \/ "offset" \in DOMAIN cfg.autoscaling
              \/ AlwaysExternal
           THEN IsExternalMetric(ret.val[1])
           ELSE IsPodsMetric(ret.val[1])

\* C11 amended: for http and uwsgi the policy has exactly one metric, the
\* External one iff the forecast policy is moving_average, an offset is
\* configured (whatever its value) or the always-external flag is set, the
\* Pods one otherwise.
C11_ExternalIffMovingAverage ==
    SignalfxPolicy =>
        /\ Len(ret.val[1].spec.metrics) = 1
        /\ IF \/ ("forecast_policy" \in DOMAIN cfg.autoscaling
                    /\ cfg.autoscaling["forecast_policy"] = "moving_average")
              \/ "offset" \in DOMAIN cfg.autoscaling
              \/ AlwaysExternal
           THEN IsExternalMetric(ret.val[1])
           ELSE IsPodsMetric(ret.val[1])

\* C11 witness: the moving average alone selects the external metric
C11_Witness ==
    /\ SignalfxPolicy
    /\ ConfiguredProvider = "uwsgi"
    /\ "forecast_policy" \in DOMAIN cfg.autoscaling
    /\ cfg.autoscaling["forecast_policy"] = "moving_average"
    /\ "offset" \notin DOMAIN cfg.autoscaling
    /\ ~AlwaysExternal
    /\ IsExternalMetric(ret.val[1])

\* C12: every policy returned by get_autoscaling_metric_spec has
\* spec.behavior.scaleDown with a 300 second stabilization window, selectPolicy
\* Max and the one policy Percent 30 per 60 seconds, whatever the
\* configuration, next to the min/max bounds, the metric and the scale target
\* of the policy.
C12_FixedScaleDownBehavior ==
    (last = "get_autoscaling_metric_spec" /\ ~ret.raised /\ ret.val # None) =>
        LET hpa == ret.val[1].spec
        IN  /\ DOMAIN hpa.behavior = {"scaleDown"}
            /\ hpa.behavior.scaleDown.stabilizationWindowSeconds = 300
            /\ hpa.behavior.scaleDown.selectPolicy = "Max"
            /\ hpa.behavior.scaleDown.policies
                 = << [type |-> "Percent", value |-> 30, periodSeconds |-> 60] >>
            /\ hpa.maxReplicas = cfg.max_instances[1]
            /\ hpa.minReplicas
                 = (IF cfg.min_instances = None THEN 1 ELSE cfg.min_instances[1])
            /\ Len(hpa.metrics) = 1
            /\ hpa.metrics[1].type
                 = (IF ConfiguredProvider = "mesos_cpu" THEN "Resource"
                    ELSE IF IsExternalMetric(ret.val[1]) THEN "External" ELSE "Pods")
            /\ hpa.scaleTargetRef
                 = [apiVersion |-> "apps/v1", kind |-> "Deployment",
                    name |-> get_sanitised_deployment_name(cfg)]

\* C12 witness: a policy for the cpu metric and bounds 1..2
C12_Witness ==
    /\ last = "get_autoscaling_metric_spec"
    /\ ~ret.raised
    /\ ret.val # None
    /\ ConfiguredProvider = "mesos_cpu"
    /\ cfg.max_instances = Some(2)
    /\ cfg.min_instances = Some(1)
    /\ ret.val[1].spec.behavior.scaleDown.stabilizationWindowSeconds = 300

---------------------------------------------------------------------------
(* SpecHash: the config hash input, for every manifest, environment and    *)
(* set of secret signatures                                                *)

DbSecret == <<"d", "b", "_", "p", "w">>
TlsSecret == <<"t", "l", "s">>
Signatures == {"sig1", "sig2"}
Templates == {"pod template 1", "pod template 2"}

EnvValues == {PlainValue(<<"x">>), SecretRef(DbSecret), SharedSecretRef(DbSecret)}
Envs ==
    {EmptyDict} \cup {[PASSWORD |-> v] : v \in EnvValues}
                \cup {[PASSWORD |-> v, TOKEN |-> w] : v \in EnvValues, w \in EnvValues}

HashConfigs ==
    { [DefaultConfig EXCEPT !.env = env, !.secret_volumes = svs] :
        env \in Envs,
        svs \in SeqsUpTo({[secret_name |-> TlsSecret,
                           container_path |-> <<"/", "t", "l", "s">>]}, MaxVolumes) }

\* The signature config map of a secret of the service, or of a shared secret
SignatureOf(service, secret) ==
    signature_name(sanitise_kubernetes_name(service), sanitise_kubernetes_name(secret))

SignatureNames ==
    { SignatureOf(DefaultConfig.service, DbSecret),
      SignatureOf(SHARED_SECRET_SERVICE, DbSecret),
      SignatureOf(DefaultConfig.service, TlsSecret) }

Kubes ==
    [available : BOOLEAN,
     config_maps : UNION {[N -> Signatures] : N \in SUBSET SignatureNames}]

\* config.to_dict() of a manifest; the second form has a replicas key at the
\* top level too
Manifests ==
    { [api_version |-> "apps/v1", kind |-> "Deployment",
       metadata |-> [name |-> "svc-m--1"],
       spec |-> [replicas |-> r, revision_history_limit |-> 0, template |-> t],
       status |-> None] : r \in 0..MaxInstances, t \in Templates }
    \cup
    { [api_version |-> "apps/v1", kind |-> "Deployment",
       metadata |-> [name |-> "svc-m--1"],
       replicas |-> r0,
       spec |-> [replicas |-> r, revision_history_limit |-> 0, template |-> t],
       status |-> None] : r0 \in 0..MaxInstances, r \in 0..MaxInstances, t \in Templates }

InitHash ==
    /\ cfg \in HashConfigs
    /\ app \in Manifests
    /\ desired_instances = 0
    /\ kube \in Kubes
    /\ ret = NoCall
    /\ last = "none"

SanitizeForConfigHash ==
    /\ ret' = sanitize_for_config_hash(cfg, app, kube)
    /\ last' = "sanitize_for_config_hash"
    /\ UNCHANGED <<cfg, app, desired_instances, kube>>

NextHash == SanitizeForConfigHash

SpecHash == InitHash /\ [][NextHash]_vars

Sanitized == last = "sanitize_for_config_hash" /\ ~ret.raised

\* C6: the hash input has every key of the manifest but replicas, at the top
\* level and in spec, each with the value the manifest has, plus
\* paasta_secrets; so it is the same for every replica count and differs when
\* another spec field differs.
C6_OnlyReplicasRemoved ==
    Sanitized =>
        /\ DOMAIN ret.val = (DOMAIN app \ {"replicas"}) \cup {"paasta_secrets"}
        /\ \A key \in DOMAIN app \ {"replicas", "spec"} : ret.val[key] = app[key]
        /\ DOMAIN ret.val["spec"] = DOMAIN app.spec \ {"replicas"}
        /\ \A key \in DOMAIN ret.val["spec"] : ret.val["spec"][key] = app.spec[key]
        /\ \A m \in Manifests :
             (/\ DOMAIN m = DOMAIN app
              /\ \A key \in DOMAIN app \ {"replicas", "spec"} : m[key] = app[key])
             => (sanitize_for_config_hash(cfg, m, kube) = ret
                   <=> m.spec.template = app.spec.template)

\* C6 witness: a manifest with replicas at both levels loses both
C6_Witness ==
    /\ Sanitized
    /\ "replicas" \in DOMAIN app
    /\ app.spec.replicas = 2
    /\ "replicas" \notin DOMAIN ret.val
    /\ "replicas" \notin DOMAIN ret.val["spec"]

\* The orchestrator after the signature config map `name` is set to sig
Rotated(k, name, sig) == [k EXCEPT !.config_maps = (name :> sig) @@ @]

\* The signature config maps of the secrets the environment refers to, and
\* of the secrets mounted as secret volumes
EnvSecretSignatures ==
    { SignatureOf(IF is_shared_secret(cfg.env[n]) THEN SHARED_SECRET_SERVICE
                  ELSE cfg.service,
                  cfg.env[n].text) :
        n \in {n \in DOMAIN cfg.env : cfg.env[n].ref # ""} }
VolumeSecretSignatures ==
    { SignatureOf(cfg.service, cfg.secret_volumes[i].secret_name) :
        i \in DOMAIN cfg.secret_volumes }

\* The hash input changes when the signature config map `name` changes
RotationChangesInput(name) ==
    \A sig \in Signatures :
        (name \notin DOMAIN kube.config_maps \/ kube.config_maps[name] # sig)
        => sanitize_for_config_hash(cfg, app, Rotated(kube, name, sig)) # ret

\* C7 as stated: with the manifest fixed, a changed signature of any secret
\* referenced from the environment or from a secret volume changes the hash
\* input.
C7_AnySecretRotationChangesInput ==
    Sanitized =>
        \A name \in EnvSecretSignatures \cup VolumeSecretSignatures :
            RotationChangesInput(name)

\* C7 amended: with the manifest fixed, a changed signature of any secret
\* referenced from an environment variable (SECRET or SHARED_SECRET) changes
\* the hash input; the secrets of secret volumes are not part of it.
C7_EnvSecretRotationChangesInput ==
    Sanitized =>
        /\ \A name \in EnvSecretSignatures : RotationChangesInput(name)
        /\ DOMAIN ret.val["paasta_secrets"]
             = {cfg.env[n] : n \in {n \in DOMAIN cfg.env : cfg.env[n].ref # ""}}

\* C7 witness: a shared secret and a secret of the service in the
\* environment, each with its own signature in the hash input
C7_Witness ==
    /\ Sanitized
    /\ cfg.env = [PASSWORD |-> SecretRef(DbSecret), TOKEN |-> SharedSecretRef(DbSecret)]
    /\ ret.val["paasta_secrets"][SecretRef(DbSecret)] = Some("sig1")
    /\ ret.val["paasta_secrets"][SharedSecretRef(DbSecret)] = Some("sig2")

---------------------------------------------------------------------------
(* SpecNames: sanitise_kubernetes_name, for every name made of a few       *)
(* tokens of letters, '-' and '_'                                          *)

NameTokens ==
    { <<"_">>, <<"-">>, <<"a">>, <<"A">>, <<"7">>,
      <<"u", "n", "d", "e", "r", "s", "c", "o", "r", "e">> }

RECURSIVE Concat(_)
Concat(tokens) == IF tokens = <<>> THEN <<>> ELSE Head(tokens) \o Concat(Tail(tokens))

\* The names of letters, digits, '-' and '_'
Names == {Concat(ts) : ts \in SeqsUpTo(NameTokens, MaxTokens)}

\* The names of lower-case letters, digits and '_'
LowerNames == {n \in Names : \A i \in DOMAIN n : n[i] \notin {"-", "A"}}

InitNames ==
    /\ cfg \in {[DefaultConfig EXCEPT !.service = n] : n \in Names}
    /\ app = NoApp
    /\ desired_instances = 0
    /\ kube = NoKube
    /\ ret = NoCall
    /\ last = "none"

SanitiseKubernetesName ==
    /\ ret' = Return(sanitise_kubernetes_name(cfg.service))
    /\ last' = "sanitise_kubernetes_name"
    /\ UNCHANGED <<cfg, app, desired_instances, kube>>

NextNames == SanitiseKubernetesName

SpecNames == InitNames /\ [][NextNames]_vars

\* C21 as stated: no other name of letters, digits, '-' and '_' has the
\* sanitised form of the name.
C21_InjectiveOnNames ==
    last = "sanitise_kubernetes_name" =>
        \A b \in Names : b # cfg.service => sanitise_kubernetes_name(b) # ret.val

\* C21 amended: among the names of lower-case letters, digits and '_' (no
\* '-', no upper-case letter) no other name has the sanitised form of the
\* name.
C21_InjectiveOnLowerNames ==
    (last = "sanitise_kubernetes_name" /\ cfg.service \in LowerNames) =>
        \A b \in LowerNames : b # cfg.service => sanitise_kubernetes_name(b) # ret.val

\* C21 witness: a leading underscore, next to the literal "underscore"
C21_Witness ==
    /\ last = "sanitise_kubernetes_name"
    /\ cfg.service = <<"_", "_", "a">>
    /\ ret.val = <<"u", "n", "d", "e", "r", "s", "c", "o", "r", "e", "-", "-", "-", "a">>
    /\ Concat(<< <<"u", "n", "d", "e", "r", "s", "c", "o", "r", "e">>, <<"_">>, <<"a">> >>)
         \in LowerNames

---------------------------------------------------------------------------
(* SpecVolumeName: get_sanitised_volume_name, for every short volume name  *)
(* and every length limit; app holds the arguments of the call             *)

VolumeNames == SeqsUpTo({"a", "B", "/", ".", "_"}, MaxNameLen)

InitVolumeName ==
    /\ cfg = NoConfig
    /\ app \in [volume_name : VolumeNames, length_limit : 1..MaxLimit]
    /\ desired_instances = 0
    /\ kube = NoKube
    /\ ret = NoCall
    /\ last = "none"

GetSanitisedVolumeName ==
    /\ ret' = Return(get_sanitised_volume_name(app.volume_name, app.length_limit))
    /\ last' = "get_sanitised_volume_name"
    /\ UNCHANGED <<cfg, app, desired_instances, kube>>

NextVolumeName == GetSanitisedVolumeName

SpecVolumeName == InitVolumeName /\ [][NextVolumeName]_vars

\* The sanitised form of the volume name of the call
SanitisedForm ==
    sanitise_kubernetes_name(replace_slash_dot(rstrip_slash(app.volume_name)))

\* The result respects the limit: the sanitised form itself when it fits,
\* else its first limit - 6 characters, "--" and four hex characters
RespectsLimit ==
    LET limit == app.length_limit
        hex == {HexDigits[i] : i \in DOMAIN HexDigits}
    IN  /\ Len(ret.val) <= limit
        /\ Len(SanitisedForm) <= limit => ret.val = SanitisedForm
        /\ Len(SanitisedForm) > limit =>
              /\ Len(ret.val) = limit
              /\ SubSeq(ret.val, 1, limit - 6) = SubSeq(SanitisedForm, 1, limit - 6)
              /\ SubSeq(ret.val, limit - 5, limit - 4) = <<"-", "-">>
              /\ \A i \in (limit - 3)..limit : ret.val[i] \in hex

\* C22 as stated: for every positive length limit the result has at most
\* that many characters, unchanged when the sanitised form fits and cut to
\* limit - 6 characters plus "--" and four hex characters otherwise.
C22_EveryPositiveLimit ==
    last = "get_sanitised_volume_name" => RespectsLimit

\* C22 amended: the same for every length limit of at least 6, the length of
\* the suffix.
C22_EveryLimitFromSix ==
    (last = "get_sanitised_volume_name" /\ app.length_limit >= 6) => RespectsLimit

\* C22 witness: a name cut to the limit 7
C22_Witness ==
    /\ last = "get_sanitised_volume_name"
    /\ app.length_limit = 7
    /\ Len(SanitisedForm) > 7
    /\ Len(ret.val) = 7
    /\ ret.val[1] = SanitisedForm[1]

---------------------------------------------------------------------------
(* The single-object reads of the orchestrator                             *)
(*                                                                         *)
(* kube.custom_objects, kube.deployments and kube.stateful_sets are what   *)
(* the API answers to a read of the one object of that kind the call names: *)
(* the object, or an ApiException with a status.                           *)

Found(body) == [ok |-> TRUE, body |-> body]
Failed(status) == [ok |-> FALSE, status |-> status]

\* The read of one object: the object, or the ApiException raised
read_namespaced(response) ==
    IF response.ok THEN Return(response.body) ELSE Raise(ApiException(response.status))

\* A mutant: every API error is taken as an absent resource
get_cr_swallowing(k, cr_id) ==
    LET r == read_namespaced(k.custom_objects)
    IN  IF r.raised THEN Return(None) ELSE Return(Some(r.val))

\* The custom resource (as an option), None on 404
get_cr(k, cr_id) ==
    LET r == read_namespaced(k.custom_objects)
    IN  IF r.raised
        THEN IF r.exc.status = 404 THEN Return(None) ELSE r
        ELSE Return(Some(r.val))

get_kubernetes_app_by_name(name, k) ==
    LET r == read_namespaced(k.deployments)
    IN  IF ~r.raised THEN r
        ELSE IF r.exc.status = 404 THEN read_namespaced(k.stateful_sets)
        ELSE r

\* spec.replicas of the stateful set or deployment (as an option), None on
\* every ApiException
get_autoscaled_instances(c, k) ==
    LET r == IF get_persistent_volumes(c) # <<>>
             THEN read_namespaced(k.stateful_sets)
             ELSE read_namespaced(k.deployments)
    IN  IF r.raised THEN Return(None) ELSE Return(Some(r.val.spec.replicas))

---------------------------------------------------------------------------
(* SpecReads: the single-object reads, for every answer of the API         *)

ErrorStatuses == {404, 403, 500}

DeploymentObject == [kind |-> "Deployment", spec |-> [replicas |-> 2]]
StatefulSetObject == [kind |-> "StatefulSet", spec |-> [replicas |-> 1]]
CustomObject == [kind |-> "FlinkCluster", status |-> [state |-> "running"]]

Responses(body) == {Found(body)} \cup {Failed(s) : s \in ErrorStatuses}

ReadSecret == <<"d", "b">>

InitReads ==
    /\ cfg \in {[DefaultConfig EXCEPT !.persistent_volumes = pvs] :
                  pvs \in {<<>>, <<PersistentVolume>>}}
    /\ app = NoApp
    /\ desired_instances = 0
    /\ kube \in [available : BOOLEAN,
                  config_maps : {EmptyDict,
                                 SignatureOf(DefaultConfig.service, ReadSecret) :> "sig1"},
                  custom_objects : Responses(CustomObject),
                  deployments : Responses(DeploymentObject),
                  stateful_sets : Responses(StatefulSetObject)]
    /\ ret = NoCall
    /\ last = "none"

GetCr ==
    /\ ret' = get_cr(kube, "cr_id")
    /\ last' = "get_cr"
    /\ UNCHANGED <<cfg, app, desired_instances, kube>>

GetKubernetesSecretSignature ==
    /\ ret' = get_kubernetes_secret_signature(kube, ReadSecret, cfg.service)
    /\ last' = "get_kubernetes_secret_signature"
    /\ UNCHANGED <<cfg, app, desired_instances, kube>>

GetKubernetesAppByName ==
    /\ ret' = get_kubernetes_app_by_name(get_sanitised_deployment_name(cfg), kube)
    /\ last' = "get_kubernetes_app_by_name"
    /\ UNCHANGED <<cfg, app, desired_instances, kube>>

GetAutoscaledInstances ==
    /\ ret' = get_autoscaled_instances(cfg, kube)
    /\ last' = "get_autoscaled_instances"
    /\ UNCHANGED <<cfg, app, desired_instances, kube>>

NextReads ==
    \/ GetCr
    \/ GetKubernetesSecretSignature
    \/ GetKubernetesAppByName
    \/ GetAutoscaledInstances

SpecReads == InitReads /\ [][NextReads]_vars

\* The answer to the read get_autoscaled_instances makes
ScaledObject ==
    IF cfg.persistent_volumes # <<>> THEN kube.stateful_sets ELSE kube.deployments

\* get_cr and get_kubernetes_secret_signature: None on 404, the error itself
\* on every other status
C23_CrAndSignature ==
    /\ last = "get_cr" =>
          IF kube.custom_objects.ok THEN ret = Return(Some(kube.custom_objects.body))
          ELSE IF kube.custom_objects.status = 404 THEN ret = Return(None)
          ELSE ret = Raise(ApiException(kube.custom_objects.status))
    /\ last = "get_kubernetes_secret_signature" =>
          IF ~kube.available THEN ret.raised /\ ret.exc.status # 404
          ELSE IF kube.config_maps = EmptyDict THEN ret = Return(None)
          ELSE ret = Return(Some("sig1"))

---------------------------------------------------------------------------
(* Logs and events of a service                                            *)

MaxObjects == 1

\* str.split(sep) of a sequence of characters
RECURSIVE split(_, _)
split(s, sep) ==
    IF \A i \in 1..Len(s) : s[i] # sep THEN <<s>>
    ELSE LET i == CHOOSE j \in 1..Len(s) :
                      s[j] = sep /\ \A h \in 1..(j - 1) : s[h] # sep
         IN  <<SubSeq(s, 1, i - 1)>> \o split(SubSeq(s, i + 1, Len(s)), sep)

\* The body of an ApiException: a JSON object with or without a message, or
\* text that is not JSON
JsonBody(message) == [json |-> TRUE, message |-> message]
NotJsonBody == [json |-> FALSE]

\* json.loads(e.body).get("message", "")
body_message(body) ==
    IF ~body.json THEN Raise(Exc("ValueError", "body is not JSON"))
    ELSE IF body.message = None THEN Return("") ELSE Return(Val(body.message))

\* container.state.waiting.message or "", else the same of terminated
container_error(container) ==
    IF container.state.waiting # None
    THEN IF container.state.waiting[1].message = None THEN ""
         ELSE Val(container.state.waiting[1].message)
    ELSE IF container.state.terminated # None
    THEN IF container.state.terminated[1].message = None THEN ""
         ELSE Val(container.state.terminated[1].message)
    ELSE ""

\* error_message is the error text, with could_not_read set when it is
\* "couldn't read stdout/stderr: '<error>'"
ErrorMessage(could_not_read, error) == [could_not_read |-> could_not_read, error |-> error]

\* k.pod_log answers read_namespaced_pod_log
get_tail_lines_for_kubernetes_container(k, pod, container, num_tail_lines) ==
    IF container.name = HACHECK_POD_NAME
    THEN Return([stdout |-> <<>>, stderr |-> <<>>, error_message |-> ErrorMessage(FALSE, "")])
    ELSE LET error == container_error(container)
         IN  IF num_tail_lines <= 0
             THEN Return([stdout |-> <<>>, stderr |-> <<>>,
                          error_message |-> ErrorMessage(FALSE, error)])
             ELSE IF k.pod_log.ok
             THEN Return([stdout |-> split(k.pod_log.body, "\n"), stderr |-> <<>>,
                          error_message |-> ErrorMessage(FALSE, error)])
             ELSE IF error = ""
             THEN Bind(body_message(k.pod_log.body),
                       LAMBDA m : Return([stdout |-> <<>>, stderr |-> <<>>,
                                          error_message |-> ErrorMessage(TRUE, m)]))
             ELSE Return([stdout |-> <<>>, stderr |-> <<>>,
                          error_message |-> ErrorMessage(TRUE, error)])

\* k.pod_events answers list_namespaced_event: an optional list of events
get_pod_events(k, pod) ==
    IF k.pod_events.ok
    THEN IF k.pod_events.body = None THEN Return(<<>>) ELSE Return(Val(k.pod_events.body))
    ELSE Return(<<>>)

\* kube_client.request of the events of one object, then json.loads(...)["items"]
get_events_for_object(response) ==
    IF response.ok THEN Return(response.body) ELSE Raise(ApiException(response.status))

\* The sort key of an event
event_key(x) ==
    IF "lastTimestamp" \in DOMAIN x /\ x.lastTimestamp # 0 THEN x.lastTimestamp
    ELSE IF "eventTime" \in DOMAIN x /\ x.eventTime # 0 THEN x.eventTime
    ELSE IF "firstTimestamp" \in DOMAIN x /\ x.firstTimestamp # 0 THEN x.firstTimestamp
    ELSE 0

\* sorted(events, key=...): stable
RECURSIVE insert_sorted(_, _)
insert_sorted(sorted, x) ==
    IF sorted = <<>> THEN <<x>>
    ELSE IF event_key(sorted[Len(sorted)]) <= event_key(x) THEN Append(sorted, x)
    ELSE Append(insert_sorted(SubSeq(sorted, 1, Len(sorted) - 1), x), sorted[Len(sorted)])

RECURSIVE sorted_events(_)
sorted_events(events) ==
    IF events = <<>> THEN <<>>
    ELSE insert_sorted(sorted_events(SubSeq(events, 1, Len(events) - 1)), events[Len(events)])

RECURSIVE extend_all(_)
extend_all(lists) ==
    IF lists = <<>> THEN <<>> ELSE Head(lists) \o extend_all(Tail(lists))

\* The reads asyncio.gather awaits, in order: pods, deployments, replica sets,
\* stateful sets
event_coros(k) == k.pods \o k.deployments \o k.replica_sets \o k.stateful_sets

\* The outcomes of get_all_events_for_service: gather raises the exception of
\* the read that fails first, whichever it is, and else gives every list
get_all_events_for_service(k) ==
    LET coros == event_coros(k)
        results == [i \in 1..Len(coros) |-> get_events_for_object(coros[i])]
    IN  IF \E i \in 1..Len(coros) : results[i].raised
        THEN {results[i] : i \in {j \in 1..Len(coros) : results[j].raised}}
        ELSE {Return(sorted_events(extend_all([i \in 1..Len(coros) |-> results[i].val])))}

---------------------------------------------------------------------------
(* SpecEvents: the reads of logs and events, each of which may fail        *)

FailedWith(status, body) == [ok |-> FALSE, status |-> status, body |-> body]

EventOne == [name |-> "e1", lastTimestamp |-> 2]
EventTwo == [name |-> "e2", eventTime |-> 1]

EventResponses == {Found(<<>>), Found(<<EventOne>>), Found(<<EventOne, EventTwo>>), Failed(500)}

ContainerStates ==
    { [waiting |-> None, terminated |-> None],
      [waiting |-> Some([message |-> Some("ImagePullBackOff")]), terminated |-> None],
      [waiting |-> Some([message |-> None]), terminated |-> None],
      [waiting |-> None, terminated |-> Some([message |-> Some("OOMKilled")])] }

Containers == [name : {"main", HACHECK_POD_NAME}, state : ContainerStates]

LogResponses ==
    {Found(<<"a", "\n", "b">>)} \cup
    {FailedWith(500, b) : b \in {JsonBody(Some("unavailable")), JsonBody(None), NotJsonBody}}

NoObjects == [pods |-> <<>>, deployments |-> <<>>, replica_sets |-> <<>>, stateful_sets |-> <<>>,
              pod_log |-> Found(<<>>), pod_events |-> Found(None)]

InitEvents ==
    /\ cfg = NoConfig
    /\ desired_instances = 0
    /\ \/ /\ app = [pod |-> "pod-1", container |-> [name |-> "main", state |-> [waiting |-> None, terminated |-> None]],
                    num_tail_lines |-> 0]
          /\ \E pods \in SeqsUpTo(EventResponses, MaxObjects),
                depls \in SeqsUpTo({Found(<<EventOne>>), Failed(500)}, MaxObjects),
                rss \in SeqsUpTo({Found(<<>>), Failed(403)}, MaxObjects),
                sss \in SeqsUpTo({Found(<<EventTwo>>), Failed(500)}, MaxObjects) :
                kube = [NoObjects EXCEPT !.pods = pods, !.deployments = depls,
                                         !.replica_sets = rss, !.stateful_sets = sss]
       \/ /\ app \in [pod : {"pod-1"}, container : Containers, num_tail_lines : {0, 2}]
          /\ \E log \in LogResponses,
                evs \in {Found(None), Found(Some(<<EventOne>>)), Failed(500)} :
                kube = [NoObjects EXCEPT !.pod_log = log, !.pod_events = evs]
    /\ ret = NoCall
    /\ last = "none"

GetTailLinesForKubernetesContainer ==
    /\ ret' = get_tail_lines_for_kubernetes_container(kube, app.pod, app.container,
                                                       app.num_tail_lines)
    /\ last' = "get_tail_lines_for_kubernetes_container"
    /\ UNCHANGED <<cfg, app, desired_instances, kube>>

GetPodEvents ==
    /\ ret' = get_pod_events(kube, app.pod)
    /\ last' = "get_pod_events"
    /\ UNCHANGED <<cfg, app, desired_instances, kube>>

GetAllEventsForService ==
    /\ ret' \in get_all_events_for_service(kube)
    /\ last' = "get_all_events_for_service"
    /\ UNCHANGED <<cfg, app, desired_instances, kube>>

NextEvents ==
    \/ GetTailLinesForKubernetesContainer
    \/ GetPodEvents
    \/ GetAllEventsForService

SpecEvents == InitEvents /\ [][NextEvents]_vars

\* The log read of the call was made and failed
LogReadFailed ==
    /\ app.container.name # HACHECK_POD_NAME
    /\ app.num_tail_lines > 0
    /\ ~kube.pod_log.ok

\* The events of the reads that succeeded
EventsRead ==
    UNION { {event_coros(kube)[i].body[j] : j \in 1..Len(event_coros(kube)[i].body)} :
            i \in {h \in 1..Len(event_coros(kube)) : event_coros(kube)[h].ok} }

\* C24: the failure of one log or event read never fails the call that made
\* it: get_tail_lines_for_kubernetes_container returns no stdout, no stderr
\* and a non-empty error_message, get_pod_events returns the empty list, and
\* get_all_events_for_service returns the events of every read that succeeded.
C24_PartialFailureDegrades ==
    /\ (last = "get_tail_lines_for_kubernetes_container" /\ LogReadFailed) =>
          /\ ~ret.raised
          /\ ret.val.stdout = <<>>
          /\ ret.val.stderr = <<>>
          /\ ret.val.error_message.could_not_read
    /\ (last = "get_pod_events" /\ ~kube.pod_events.ok) => ret = Return(<<>>)
    /\ last = "get_all_events_for_service" =>
          /\ ~ret.raised
          /\ {ret.val[i] : i \in 1..Len(ret.val)} = EventsRead

\* The same of the reads of logs and of the events of one pod only, where the
\* body of the error is JSON
LogsAndPodEventsDegrade ==
    /\ (/\ last = "get_tail_lines_for_kubernetes_container"
        /\ LogReadFailed
        /\ (kube.pod_log.body.json \/ container_error(app.container) # "")) =>
          /\ ~ret.raised
          /\ ret.val.stdout = <<>>
          /\ ret.val.stderr = <<>>
          /\ ret.val.error_message.could_not_read
    /\ (last = "get_pod_events" /\ ~kube.pod_events.ok) => ret = Return(<<>>)
    /\ (last = "get_all_events_for_service" /\ ~ret.raised) =>
          {ret.val[i] : i \in 1..Len(ret.val)} = EventsRead

---------------------------------------------------------------------------
(* SpecServiceAccount: compiling a config with an IAM role                 *)

IamRoles == {<<>>, <<"r", "/", "a">>, <<"r", ":", "/", "a">>, <<"r", "b">>}

ServiceAccountConfigs ==
    { [DefaultConfig EXCEPT
         !.iam_role_provider = provider, !.iam_role = role,
         !.cmd = cmd, !.bounce_method = bm, !.persistent_volumes = pvs] :
        provider \in {"kiam", "aws"},
        role \in IamRoles,
        cmd \in {None, Some(PyInt(5))},
        bm \in {None, Some("sideways")},
        pvs \in {<<>>, <<PersistentVolume>>} }

InitServiceAccount ==
    /\ cfg \in ServiceAccountConfigs
    /\ app = NoApp
    /\ desired_instances = 0
    /\ kube \in [available : BOOLEAN,
                 config_maps : {NoKube.config_maps},
                 service_accounts : {{}, {<<"p", "a", "a", "s", "t", "a", "-", "-", "r", "-", "a">>}},
                 writes : {<<>>}]
    /\ ret = NoCall
    /\ last = "none"

NextServiceAccount == FormatKubernetesApp

SpecServiceAccount == InitServiceAccount /\ [][NextServiceAccount]_vars

\* C25: format_kubernetes_app leaves the orchestrator as it was, with
\* iam_role_provider aws and an IAM role too: it creates, replaces, patches
\* and deletes nothing.
C25_CompileLeavesOrchestratorUnchanged ==
    [][last' = "format_kubernetes_app" => kube' = kube]_vars

\* A compile that fails or finds the service account of the role writes nothing
CompileWithoutRoleWritesNothing ==
    [][(\/ cfg.iam_role_provider # "aws"
        \/ cfg.iam_role = <<>>
        \/ <<"p", "a", "a", "s", "t", "a", "-", "-">> \o normalize_iam_role(cfg.iam_role)
              \in kube.service_accounts) => kube' = kube]_vars

---------------------------------------------------------------------------
(* The bounce method of a config with an EBS volume, under SpecManifest    *)

\* The bounce method the config asks for, "crossover" when it names none
RequestedBounce == Get(cfg.bounce_method, "crossover")

\* C26: format_kubernetes_app returns no manifest, Deployment or StatefulSet,
\* for a config with an EBS volume whose bounce method is not downthenup,
\* with persistent volumes configured too.
C26_NoManifestForEbsUnlessDownThenUp ==
    (/\ last = "format_kubernetes_app"
     /\ cfg.aws_ebs_volumes # <<>>
     /\ RequestedBounce # "downthenup") => ret.raised

\* The same of the configs without persistent volumes, which compile to a
\* Deployment
EbsDeploymentNeedsDownThenUp ==
    (/\ last = "format_kubernetes_app"
     /\ cfg.aws_ebs_volumes # <<>>
     /\ cfg.persistent_volumes = <<>>
     /\ RequestedBounce # "downthenup") => ret.raised

---------------------------------------------------------------------------
(* SpecVolumes: the volumes and volume mounts of a manifest                *)

MaxMounts == 2

\* Two host paths and two secrets that sanitise to one name each
HostVolume == [hostPath |-> <<"/", "a">>, containerPath |-> <<"/", "x">>, mode |-> "RW"]
HostVolumeSlash == [hostPath |-> <<"/", "a", "/">>, containerPath |-> <<"/", "y">>]
HacheckVolume == [hostPath |-> <<"/", "h">>, containerPath |-> <<"/", "h">>, mode |-> "RO"]
EbsVolumeAgain == [volume_id |-> <<"v", "o", "l", "-", "1">>,
                   container_path |-> <<"/", "e", "2">>, mode |-> "RW"]
DataVolumeSlash == [container_path |-> <<"/", "d", "a", "t", "a", "/">>, size |-> 5]
SecretVolume == [secret_name |-> <<"t", "l", "s">>, container_path |-> <<"/", "t", "l", "s">>]
SecretVolumeUpper == [secret_name |-> <<"T", "L", "S">>, container_path |-> <<"/", "k">>]

VolumeConfigs ==
    { [DefaultConfig EXCEPT
         !.volumes = vs, !.hacheck_sidecar_volumes = hs, !.in_smartstack = sm,
         !.aws_ebs_volumes = ebs, !.persistent_volumes = pvs, !.secret_volumes = svs,
         !.bounce_method = Some("downthenup")] :
        vs \in SeqsUpTo({HostVolume, HostVolumeSlash}, MaxMounts),
        hs \in {<<>>, <<HacheckVolume>>},
        sm \in BOOLEAN,
        ebs \in {<<>>, <<EbsVolume, EbsVolumeAgain>>},
        pvs \in {<<>>, <<PersistentVolume, DataVolumeSlash>>},
        svs \in {<<>>, <<SecretVolume>>, <<SecretVolume, SecretVolumeUpper>>,
                 <<SecretVolumeUpper, SecretVolumeUpper>>} }

InitVolumes ==
    /\ cfg \in VolumeConfigs
    /\ app = NoApp
    /\ desired_instances = 0
    /\ kube = NoKube
    /\ ret = NoCall
    /\ last = "none"

GetPodVolumes ==
    /\ ret' = Return(get_pod_volumes(get_volumes(cfg) \o get_hacheck_sidecar_volumes(cfg),
                                     get_aws_ebs_volumes(cfg), get_secret_volumes(cfg)))
    /\ last' = "get_pod_volumes"
    /\ UNCHANGED <<cfg, app, desired_instances, kube>>

GetVolumeMounts ==
    /\ ret' = Return(get_volume_mounts(get_volumes(cfg), get_aws_ebs_volumes(cfg),
                                       get_persistent_volumes(cfg), get_secret_volumes(cfg)))
    /\ last' = "get_volume_mounts"
    /\ UNCHANGED <<cfg, app, desired_instances, kube>>

NextVolumes ==
    \/ FormatKubernetesApp
    \/ GetPodVolumes
    \/ GetVolumeMounts

SpecVolumes == InitVolumes /\ [][NextVolumes]_vars

NamesOf(entries) == {entries[i].name : i \in DOMAIN entries}

\* The names of the volume claim templates of a manifest
ClaimNames(m) ==
    IF m.kind = "StatefulSet"
    THEN {m.spec.volume_claim_templates[i].metadata.name :
            i \in DOMAIN m.spec.volume_claim_templates}
    ELSE {}

PersistentPaths == {cfg.persistent_volumes[i].container_path : i \in DOMAIN cfg.persistent_volumes}

\* C27: in every manifest every volume mount of every container names a
\* volume of the manifest: the mount of a persistent volume names a volume
\* claim template, every other mount names a volume of the pod.
C27_MountsNameVolumes ==
    (last = "format_kubernetes_app" /\ ~ret.raised) =>
        LET pod == ret.val.spec.template.spec
        IN  \A i \in DOMAIN pod.containers :
              \A j \in DOMAIN pod.containers[i].volume_mounts :
                LET mount == pod.containers[i].volume_mounts[j]
                IN  IF mount.mount_path \in PersistentPaths
                    THEN mount.name \in ClaimNames(ret.val)
                    ELSE mount.name \in NamesOf(pod.volumes)

\* C27 witness: a manifest with a hacheck sidecar, whose two host paths have
\* one name and one volume, and whose secret is mounted
C27_Witness ==
    /\ last = "format_kubernetes_app"
    /\ ~ret.raised
    /\ cfg.volumes = <<HostVolume, HostVolumeSlash>>
    /\ cfg.secret_volumes = <<SecretVolume>>
    /\ cfg.persistent_volumes # <<>>
    /\ Len(ret.val.spec.template.spec.containers) = 2
    /\ Len(ret.val.spec.template.spec.containers[1].volume_mounts) >= 4
    /\ Len(ret.val.spec.template.spec.containers[2].volume_mounts) = 1
    /\ Len(ret.val.spec.template.spec.volumes) = 3

\* C28: the volumes get_pod_volumes returns have pairwise distinct names,
\* for every input, the same secret volume configured twice included.
C28_DistinctVolumeNames ==
    last = "get_pod_volumes" =>
        \A i, j \in DOMAIN ret.val : ret.val[i].name = ret.val[j].name => i = j

\* The same of the inputs whose secret volumes have pairwise distinct names,
\* where the last host path and the last EBS volume of a name is the one kept
DistinctSecretsDistinctVolumeNames ==
    (/\ last = "get_pod_volumes"
     /\ \A i, j \in DOMAIN cfg.secret_volumes :
           get_secret_volume_name(cfg.secret_volumes[i])
             = get_secret_volume_name(cfg.secret_volumes[j]) => i = j) =>
        /\ \A i, j \in DOMAIN ret.val : ret.val[i].name = ret.val[j].name => i = j
        /\ cfg.aws_ebs_volumes = <<EbsVolume, EbsVolumeAgain>> =>
              \E i \in DOMAIN ret.val :
                  ret.val[i].name = get_aws_ebs_volume_name(EbsVolumeAgain)
        /\ \A i \in DOMAIN ret.val :
              "host_path" \in DOMAIN ret.val[i]
              /\ ret.val[i].name = get_docker_volume_name(HostVolume)
              => \E n \in DOMAIN (cfg.volumes \o cfg.hacheck_sidecar_volumes) :
                   /\ (cfg.volumes \o cfg.hacheck_sidecar_volumes)[n].hostPath = ret.val[i].host_path
                   /\ \A h \in (n + 1)..Len(cfg.volumes) :
                         get_docker_volume_name(cfg.volumes[h]) # ret.val[i].name

---------------------------------------------------------------------------
(* The desired state of a custom resource                                  *)

\* dict.get(key, default)
dict_get(d, key, default) == IF key \in DOMAIN d THEN d[key] ELSE default

\* d[key] = value
dict_set(d, key, value) == (key :> value) @@ d

\* cr.get("status", {}).get("state") == desired_state
status_state_is(cr, desired_state) ==
    LET status == dict_get(cr, "status", EmptyDict)
    IN  IF "state" \in DOMAIN status THEN status["state"] = desired_state ELSE FALSE

\* cr.get("status"), as an option
status_of(cr) == IF "status" \in DOMAIN cr THEN Some(cr["status"]) ELSE None

\* replace_namespaced_custom_object: k.replace_status is the answer of the API
replace_namespaced_custom_object(k, body) ==
    IF k.replace_status = 200
    THEN [result |-> Return(body),
          kube |-> [k EXCEPT !.custom_objects = Found(body),
                             !.writes = Append(@, [verb |-> "replace", body |-> body])]]
    ELSE [result |-> Raise(ApiException(k.replace_status)),
          kube |-> [k EXCEPT !.writes = Append(@, [verb |-> "replace", body |-> body])]]

\* The resource with the two desired_state annotations set
with_desired_state(cr, desired_state) ==
    LET metadata == dict_get(cr, "metadata", EmptyDict)
        annotations == dict_get(metadata, "annotations", EmptyDict)
    IN  dict_set(cr, "metadata",
          dict_set(metadata, "annotations",
            dict_set(dict_set(annotations, "yelp.com/desired_state", desired_state),
                     "paasta.yelp.com/desired_state", desired_state)))

\* A mutant: only the paasta.yelp.com annotation is set
set_cr_desired_state_one_annotation(k, cr_id, desired_state) ==
    LET read == read_namespaced(k.custom_objects)
    IN  IF read.raised THEN [result |-> read, kube |-> k]
        ELSE LET cr == read.val
             IN  IF status_state_is(cr, desired_state)
                 THEN [result |-> Return(Some(cr["status"])), kube |-> k]
                 ELSE LET metadata == dict_get(cr, "metadata", EmptyDict)
                          annotations == dict_get(metadata, "annotations", EmptyDict)
                          body == dict_set(cr, "metadata",
                                    dict_set(metadata, "annotations",
                                      dict_set(annotations, "paasta.yelp.com/desired_state",
                                               desired_state)))
                          replaced == replace_namespaced_custom_object(k, body)
                      IN  IF replaced.result.raised THEN replaced
                          ELSE [result |-> Return(status_of(body)),
                                kube |-> replaced.kube]

\* The status returned (as an option) and the
\* orchestrator after the call
set_cr_desired_state(k, cr_id, desired_state) ==
    LET read == read_namespaced(k.custom_objects)
    IN  IF read.raised THEN [result |-> read, kube |-> k]
        ELSE LET cr == read.val
             IN  IF status_state_is(cr, desired_state)
                 THEN [result |-> Return(Some(cr["status"])), kube |-> k]
                 ELSE LET body == with_desired_state(cr, desired_state)
                          replaced == replace_namespaced_custom_object(k, body)
                      IN  IF replaced.result.raised THEN replaced
                          ELSE [result |-> Return(status_of(body)),
                                kube |-> replaced.kube]

---------------------------------------------------------------------------
(* SpecDesiredState: set_cr_desired_state, called again and again          *)

MaxWrites == 2

DesiredStates == {"running", "stopped"}

OwnerAnnotation == "owner" :> "team"

CrMetadata ==
    { "name" :> "cr",
      ("name" :> "cr") @@ ("annotations" :> OwnerAnnotation),
      ("name" :> "cr") @@ ("annotations" :>
          (OwnerAnnotation @@ ("yelp.com/desired_state" :> "stopped"))) }

CrStatuses == {"state" :> s : s \in DesiredStates} \cup {"phase" :> "new"}

CustomResources ==
    {"kind" :> "FlinkCluster"}
    \cup {("kind" :> "FlinkCluster") @@ ("metadata" :> m) : m \in CrMetadata}
    \cup {("kind" :> "FlinkCluster") @@ ("status" :> s) : s \in CrStatuses}
    \cup {("kind" :> "FlinkCluster") @@ ("metadata" :> m) @@ ("status" :> s) :
            m \in CrMetadata, s \in CrStatuses}

InitDesiredState ==
    /\ cfg = NoConfig
    /\ app = [cr_id |-> "cr", desired_state |-> "none"]
    /\ desired_instances = 0
    /\ kube \in [custom_objects : {Found(cr) : cr \in CustomResources}
                                   \cup {Failed(404), Failed(500)},
                 replace_status : {200, 409},
                 writes : {<<>>}]
    /\ ret = NoCall
    /\ last = "none"

SetCrDesiredState ==
    /\ Len(kube.writes) < MaxWrites
    /\ \E desired_state \in DesiredStates :
          /\ app' = [cr_id |-> "cr", desired_state |-> desired_state]
          /\ ret' = set_cr_desired_state(kube, "cr", desired_state).result
          /\ kube' = set_cr_desired_state(kube, "cr", desired_state).kube
    /\ last' = "set_cr_desired_state"
    /\ UNCHANGED <<cfg, desired_instances>>

NextDesiredState == SetCrDesiredState

SpecDesiredState == InitDesiredState /\ [][NextDesiredState]_vars

\* The resource the call read
CrRead == kube.custom_objects.body

\* The fields of a dict other than the one named
Without(d, key) == [k \in DOMAIN d \ {key} |-> d[k]]

\* The body is the resource read with the two annotations set to the state
\* and nothing else changed
SameButDesiredState(body, cr, desired_state) ==
    LET metadata == dict_get(cr, "metadata", EmptyDict)
        annotations == dict_get(metadata, "annotations", EmptyDict)
        others == DOMAIN annotations \ {"yelp.com/desired_state", "paasta.yelp.com/desired_state"}
    IN  /\ Without(body, "metadata") = Without(cr, "metadata")
        /\ Without(body["metadata"], "annotations") = Without(metadata, "annotations")
        /\ DOMAIN body["metadata"]["annotations"]
             = others \cup {"yelp.com/desired_state", "paasta.yelp.com/desired_state"}
        /\ body["metadata"]["annotations"]["yelp.com/desired_state"] = desired_state
        /\ body["metadata"]["annotations"]["paasta.yelp.com/desired_state"] = desired_state
        /\ \A a \in others : body["metadata"]["annotations"][a] = annotations[a]

\* C29: a call of set_cr_desired_state that reads the resource issues no
\* write when status.state is the requested state; otherwise it issues one
\* replace, whose body is the resource read with both desired_state
\* annotations set to the requested state and everything else as read; the
\* call returns the status as read (and when the replace fails, its error).
C29_OneReplaceUnlessInState ==
    [][(last' = "set_cr_desired_state" /\ kube.custom_objects.ok) =>
         IF status_state_is(CrRead, app'.desired_state)
         THEN /\ kube' = kube
              /\ ret' = Return(Some(CrRead["status"]))
         ELSE /\ Len(kube'.writes) = Len(kube.writes) + 1
              /\ SubSeq(kube'.writes, 1, Len(kube.writes)) = kube.writes
              /\ kube'.writes[Len(kube'.writes)].verb = "replace"
              /\ SameButDesiredState(kube'.writes[Len(kube'.writes)].body, CrRead,
                                     app'.desired_state)
              /\ IF kube.replace_status = 200
                 THEN ret' = Return(status_of(CrRead))
                 ELSE ret' = Raise(ApiException(kube.replace_status))]_vars

\* C29 witness: the state of a resource with another annotation and a stale
\* desired state was set to running by one replace
C29_Witness ==
    /\ last = "set_cr_desired_state"
    /\ app.desired_state = "running"
    /\ Len(kube.writes) = 1
    /\ kube.writes[1].verb = "replace"
    /\ kube.writes[1].body["metadata"]["annotations"]
         = (OwnerAnnotation @@ ("yelp.com/desired_state" :> "running")
            @@ ("paasta.yelp.com/desired_state" :> "running"))
    /\ status_of(kube.writes[1].body) = Some("state" :> "stopped")
    /\ ret = Return(Some("state" :> "stopped"))

---------------------------------------------------------------------------
(* Namespaces                                                              *)

\* The V1Namespace ensure_namespace creates
paasta_namespace(namespace) ==
    [verb |-> "create", kind |-> "Namespace", name |-> namespace,
     labels |-> [name |-> namespace]]

\* A mutant: the namespace is created without a look at the listing
ensure_namespace_unlisted(k, namespace) ==
    IF ~k.available THEN [result |-> Raise(ApiException(500)), kube |-> k]
    ELSE [result |-> Return(None),
          kube |-> [k EXCEPT !.namespaces = @ \cup {namespace},
                             !.writes = Append(@, paasta_namespace(namespace))]]

\* k.namespaces are the names list_namespace gives; the list and the create
\* of one call, with no other call in between
ensure_namespace(k, namespace) ==
    IF ~k.available THEN [result |-> Raise(ApiException(500)), kube |-> k]
    ELSE IF namespace \notin k.namespaces
    THEN [result |-> Return(None),
          kube |-> [k EXCEPT !.namespaces = @ \cup {namespace},
                             !.writes = Append(@, paasta_namespace(namespace))]]
    ELSE [result |-> Return(None), kube |-> k]

---------------------------------------------------------------------------
(* SpecNamespace: ensure_namespace called one call after another           *)

MaxCalls == 2

NamespaceNames == {"paasta", "tron", "flink"}

InitNamespace ==
    /\ cfg = NoConfig
    /\ app = [namespace |-> "none", calls |-> [n \in NamespaceNames |-> 0]]
    /\ desired_instances = 0
    /\ kube \in [available : BOOLEAN,
                 namespaces : SUBSET NamespaceNames,
                 writes : {<<>>}]
    /\ ret = NoCall
    /\ last = "none"

EnsureNamespace ==
    /\ \E namespace \in NamespaceNames :
          /\ app.calls[namespace] < MaxCalls
          /\ app' = [namespace |-> namespace,
                     calls |-> [app.calls EXCEPT ![namespace] = @ + 1]]
          /\ ret' = ensure_namespace(kube, namespace).result
          /\ kube' = ensure_namespace(kube, namespace).kube
    /\ last' = "ensure_namespace"
    /\ UNCHANGED <<cfg, desired_instances>>

NextNamespace == EnsureNamespace

SpecNamespace == InitNamespace /\ [][NextNamespace]_vars

====
